---- MODULE Spec2Model ----
(***************************************************************************)
(* Notification scheduler of podcast-active-fetcher.                       *)
(*                                                                         *)
(* The model follows src/podcast_fetcher/fetch_episodes_with_modal.py      *)
(* (process_all_notifications and the three cadence paths) and the store   *)
(* operations of src/podcast_fetcher/database.py.                          *)
(*                                                                         *)
(* Time is the wall clock in whole hours; 0 is a Monday 00:00 UTC.  The    *)
(* code reads the clock (datetime.now) at several places of one run; the   *)
(* clock may advance between two reads (Stall).  A behaviour covers the    *)
(* hours from 06:00 on, of a Sunday or of a Monday; the episodes of the    *)
(* store were published before, or within the hour after, its start.       *)
(***************************************************************************)
EXTENDS Integers, Sequences, FiniteSets, TLC

\* ------------------------------------------------------------------ bounds
Horizon == 7
MaxRunHours == 3
MaxStalls == 1
MaxKills == 1
MaxFaults == 1
MaxCalls == 4
MaxJobs == 2
MaxChars == 6
MaxLength == 4

\* ------------------------------------------------------- program constants
ImmediateWindowHours == 48
\* faulty variant: the daily path keeps the window of the immediate path
DailyWindowAsImmediate == ImmediateWindowHours
DailyWindowHours == 24
WeeklyWindowHours == 168
DigestHour == 9
DigestWeekday == 0
CronEveryHours == 6

NULL == "NULL"
EMPTY == ""
TEXT == "text"

Users == {"u1", "u2"}
Podcasts == {1, 2}
EpisodeIds == {"e1", "e2", "e3", "e4"}
EpisodeTable == <<"e1", "e2", "e3", "e4">>
Cadences == {"immediate", "daily", "weekly"}

VARIABLES
    time,                \* wall clock, hours since Monday 00:00 UTC
    episodes,            \* Episode table: id -> [podcast_id, published, transcript]
    subscriptions,       \* UserSubscription table, rows in insertion order
    processed_episodes,  \* ProcessedEpisode table: <<episode_id, username>> -> number of rows
    store_errors,        \* TRUE when store calls may raise
    result,              \* the last call of a subscription operation and what it returned
    calls,               \* subscription operations called so far
    jobs,                \* the TranscriptionJob table, in insertion order
    s3,                  \* the transcript bucket: what lies under transcripts/<episode id>.json
    examined,            \* the jobs the completion check of the last step selected
    rolled_back,         \* the jobs whose commit raises in it, when they get to it
    bucket,              \* TRANSCRIPT_S3_BUCKET of the environment, NULL when not set
    polled,              \* the last run of fetch_podcast_episodes: which podcasts failed, the ids it computed
    submission,          \* the run of fetch_transcripts: the episodes still to do, the last iteration
    ran,                 \* "process_completed_transcripts" after a step of it, "" after any other
    telegram,            \* the message at hand, and what the Telegram client was given for it
    sessions,            \* the subscribe calls under way, each in its own session
    pc,                  \* position of the running process_all_notifications
    invoked_at,          \* cron slot of the current / last invocation
    podcast_subscriptions, \* immediate path: remaining <<podcast_id, usernames>>
    units,               \* immediate path: remaining <<episode, username>> of the podcast
    queue,               \* digest path: remaining subscription rows
    user_episodes,       \* digest path: <<username, episodes>> in first-seen order
    to_mark,             \* episodes of a sent unit still to be marked
    current_hour,        \* line 456
    since_date,          \* lines 509, 579, 635: start of the window of the last query
    counters,            \* total_processed, total_notifications, total_errors, total_sent
    run_ticks,           \* hours the clock advanced inside the runs of the cron slot
    stalls,              \* external calls of these runs that took an hour or more
    rerun,               \* a killed run is waiting to be run again
    kill_budget,         \* kills of a run the platform may still do
    subscribed_in_run,   \* history: the <<username, podcast_id>> with an active row
                         \*          at the start of the current run or since
    fault_budget,        \* external calls that may still fail
    deliveries,          \* history: <<episode, username>> -> messages delivered
    nows,                \* history: clock values read by the current run
    failed_units,        \* history: failed units of work of the current run
    error_summaries,     \* history: pairs whose summary generation failed (the
                         \*          summary is the summarizer's error text)
    weekly_log,          \* history: the executions of the weekly path
    owed,                \* history: <<episode, username, cadence>> left eligible by a
                         \*          complete run without failed units
    failed_pairs,        \* history: pairs with a unit of work that failed to send
    unmarked_at_kill,    \* history: pairs sent but without record when a run was killed
    digest_done,         \* history: <<cadence, now>> of the completed digest paths
    boundary_seen,       \* history: cadences that selected an episode published
                         \*          exactly at since_date
    messages             \* history: the messages the current run has sent, in order

\* the state that a run of process_all_notifications never writes
pipeline == <<jobs, s3, examined, rolled_back, bucket, polled, submission, ran>>
front == <<telegram, sessions>>
outside == <<store_errors, result, calls, pipeline, front>>
db == <<episodes, subscriptions, processed_episodes, outside>>
locals == <<podcast_subscriptions, units, queue, user_episodes, to_mark,
            current_hour, since_date, counters>>
runctl == <<invoked_at, run_ticks, stalls, rerun, kill_budget, subscribed_in_run>>
sched == <<runctl, fault_budget>>
marks == <<failed_pairs, unmarked_at_kill, digest_done, boundary_seen, messages>>
hist == <<deliveries, nows, failed_units, error_summaries, weekly_log, owed, marks>>
vars == <<time, db, pc, locals, sched, hist>>

\* ---------------------------------------------------------------- helpers
Hour(t) == t % 24
Weekday(t) == (t \div 24) % 7
Week(t) == t \div 168

\* the behaviours start at 06:00 of the Sunday before hour 0 or of the Monday
Starts == {6 - 24, 6}
Elapsed(t) == (t - 6) % 24

AllPairs == EpisodeIds \X Users

EmptyLocals ==
    /\ podcast_subscriptions' = <<>>
    /\ units' = <<>>
    /\ queue' = <<>>
    /\ user_episodes' = <<>>
    /\ to_mark' = <<>>
    /\ current_hour' = -1
    /\ since_date' = 0
    /\ counters' = [processed |-> 0, notifications |-> 0, errors |-> 0, sent |-> 0]

\* ------------------------------------------------------------ store reads
\* database.py: is_episode_processed_for_user; a store error answers False
HasRecord(e, u) == processed_episodes[<<e, u>>] > 0

\* faulty variant: the lookup never finds the record
is_episode_processed_never(e, u, raised) == FALSE

is_episode_processed_for_user(e, u, raised) ==
    IF raised THEN FALSE ELSE HasRecord(e, u)

LookupErrors == IF store_errors THEN BOOLEAN ELSE {FALSE}

\* faulty variant: a row is inserted without looking for an existing one
mark_episode_inserted(rows, e, u) == [rows EXCEPT ![<<e, u>>] = @ + 1]

\* faulty variant: the record is not written
mark_episode_skipped(rows, e, u) == rows

\* database.py: mark_episode_processed; an existing row is updated in place
\* (summary_sent, processed_at), otherwise one row is inserted
mark_episode_processed(rows, e, u) ==
    IF rows[<<e, u>>] > 0
    THEN rows
    ELSE [rows EXCEPT ![<<e, u>>] = @ + 1]

\* faulty variant: the boundary is excluded
InWindowExclusive(published, since) == published > since

\* the WHERE clause shared by the three cadence queries
InWindow(published, since) == published >= since

\* faulty variant: the query lacks Episode.transcript.isnot(None)
HasTranscriptOrNone(e) == TRUE

HasTranscript(e) == episodes[e].transcript # NULL

EpisodeQuery(podcast_id, since) ==
    SelectSeq(EpisodeTable, LAMBDA e :
        /\ episodes[e].podcast_id = podcast_id
        /\ InWindow(episodes[e].published, since)
        /\ HasTranscript(e))

\* faulty variant: the query lacks UserSubscription.is_active == True
SubscriptionsOfPreference(preference) ==
    SelectSeq(subscriptions, LAMBDA s : s.notification_preferences = preference)

ActiveSubscriptions(preference) ==
    SelectSeq(subscriptions, LAMBDA s :
        s.is_active /\ s.notification_preferences = preference)

\* history: the pairs with an active row in the table
ActivePairs(table) ==
    {<<table[i].username, table[i].podcast_id>> :
        i \in {j \in 1..Len(table) : table[j].is_active}}


\* ------------------------------------------------- immediate path helpers
\* lines 487-492: group the usernames by podcast, podcasts in first-seen order
AddSubscriber(groups, podcast_id, username) ==
    IF \E i \in 1..Len(groups) : groups[i][1] = podcast_id
    THEN [i \in 1..Len(groups) |->
            IF groups[i][1] = podcast_id
            THEN <<podcast_id, Append(groups[i][2], username)>>
            ELSE groups[i]]
    ELSE Append(groups, <<podcast_id, <<username>>>>)

RECURSIVE GroupByPodcast(_, _)
GroupByPodcast(subs, groups) ==
    IF subs = <<>> THEN groups
    ELSE GroupByPodcast(Tail(subs),
            AddSubscriber(groups, subs[1].podcast_id, subs[1].username))

\* lines 527-530: for episode in episodes: for username in usernames
UnitsOf(eps, usernames) ==
    [k \in 1..(Len(eps) * Len(usernames)) |->
        <<eps[((k - 1) \div Len(usernames)) + 1],
          usernames[((k - 1) % Len(usernames)) + 1]>>]

\* format_episode_notification, lines 714-733: the message of one episode,
\* as the podcasts it names and the episodes under each
format_episode_notification(e) == <<<<episodes[e].podcast_id, <<e>>>>>>

\* format_daily_digest, lines 785-798 (format_weekly_digest, 819-832, is the
\* same): the episodes grouped by podcast, podcasts in first-seen order
RECURSIVE format_daily_digest(_, _)
format_daily_digest(eps, podcast_episodes) ==
    IF eps = <<>> THEN podcast_episodes
    ELSE LET title == episodes[eps[1]].podcast_id
         IN  format_daily_digest(Tail(eps),
                IF \E i \in 1..Len(podcast_episodes) : podcast_episodes[i][1] = title
                THEN [i \in 1..Len(podcast_episodes) |->
                        IF podcast_episodes[i][1] = title
                        THEN <<title, Append(podcast_episodes[i][2], eps[1])>>
                        ELSE podcast_episodes[i]]
                ELSE Append(podcast_episodes, <<title, <<eps[1]>>>>))

\* faulty variant: the unit reports success whatever the send returned
process_episode_for_user_unchecked(e, llm_ok, summary_ok, send_ok) ==
    [success |-> TRUE, sent |-> send_ok, error_summary |-> FALSE]

\* process_episode_for_user, lines 677-711: the result of one unit of work.
\* llm_ok: the LLM client could be built; summary_ok: llm.complete returned;
\* send_ok: send_telegram_notification_sync returned True.
\* generate_episode_summary turns a summarizer error into the summary text.
process_episode_for_user(e, llm_ok, summary_ok, send_ok) ==
    IF episodes[e].transcript \in {NULL, EMPTY}
    THEN [success |-> FALSE, sent |-> FALSE, error_summary |-> FALSE]
    ELSE IF ~llm_ok
    THEN [success |-> FALSE, sent |-> FALSE, error_summary |-> FALSE]
    ELSE [success |-> send_ok, sent |-> send_ok,
          error_summary |-> ~summary_ok]

\* the external calls may fail while the fault budget lasts
CallResults == IF fault_budget > 0 THEN BOOLEAN ELSE {TRUE}

\* lines 530-541: leave the current unit; total_processed counts the episodes
\* whose subscriber loop ended.  cs holds the counters after the unit's own step.
NextUnit(cs) ==
    LET rest == Tail(units)
        episode_done == rest = <<>> \/ rest[1][1] # units[1][1]
    IN  /\ units' = rest
        /\ pc' = IF rest = <<>> THEN "imm_podcast" ELSE "imm_unit"
        /\ counters' = [cs EXCEPT !.processed = @ + (IF episode_done THEN 1 ELSE 0)]

\* history: the cadence selected an episode published exactly at since
SeenAt(preference, eps, since) ==
    IF \E i \in 1..Len(eps) : episodes[eps[i]].published = since
    THEN boundary_seen \cup {preference}
    ELSE boundary_seen

\* --------------------------------------------------------- immediate path
\* process_immediate_notifications_logic, lines 473-496
ImmediateStart ==
    /\ pc = "imm_start"
    /\ LET immediate_subscriptions == ActiveSubscriptions("immediate")
       IN  IF immediate_subscriptions = <<>>
           THEN /\ pc' = "gate_hour"
                /\ UNCHANGED podcast_subscriptions
           ELSE /\ pc' = "imm_podcast"
                /\ podcast_subscriptions' = GroupByPodcast(immediate_subscriptions, <<>>)
    /\ UNCHANGED <<time, db, sched, hist, units, queue, user_episodes, to_mark,
                   current_hour, since_date, counters>>

\* lines 499-524 and 551: next podcast of the loop, its clock read and its query
ImmediatePodcast ==
    /\ pc = "imm_podcast"
    /\ IF podcast_subscriptions = <<>>
       THEN /\ pc' = "gate_hour"
            /\ UNCHANGED <<podcast_subscriptions, units, nows, since_date,
                           boundary_seen>>
       ELSE LET podcast_id == podcast_subscriptions[1][1]
                usernames == podcast_subscriptions[1][2]
                eps == EpisodeQuery(podcast_id, time - ImmediateWindowHours)
            IN  /\ podcast_subscriptions' = Tail(podcast_subscriptions)
                /\ since_date' = time - ImmediateWindowHours
                /\ nows' = nows \cup {time}
                /\ units' = UnitsOf(eps, usernames)
                /\ boundary_seen' = SeenAt("immediate", eps, time - ImmediateWindowHours)
                /\ pc' = IF eps = <<>> THEN "imm_podcast" ELSE "imm_unit"
    /\ UNCHANGED <<time, db, sched, queue, user_episodes, to_mark, current_hour,
                   counters, deliveries, failed_units, error_summaries,
                   weekly_log, owed, failed_pairs, unmarked_at_kill, digest_done,
                   messages>>

\* lines 530-539: the record lookup and process_episode_for_user for one unit
ImmediateUnit ==
    /\ pc = "imm_unit"
    /\ LET e == units[1][1]
           u == units[1][2]
       IN  \E raised \in LookupErrors :
            IF is_episode_processed_for_user(e, u, raised)
            THEN /\ NextUnit(counters)
                 /\ UNCHANGED <<to_mark, deliveries, failed_units, error_summaries,
                                fault_budget, failed_pairs, messages>>
            ELSE \E llm_ok \in CallResults, summary_ok \in CallResults,
                    send_ok \in CallResults :
                 LET r == process_episode_for_user(e, llm_ok, summary_ok, send_ok)
                 IN
                   /\ fault_budget' = IF llm_ok /\ summary_ok /\ send_ok
                                      THEN fault_budget ELSE fault_budget - 1
                   /\ deliveries' = IF r.sent
                                    THEN [deliveries EXCEPT ![<<e, u>>] = @ + 1]
                                    ELSE deliveries
                   /\ messages' = IF r.sent
                                  THEN Append(messages,
                                         [to |-> u, cadence |-> "immediate",
                                          body |-> format_episode_notification(e)])
                                  ELSE messages
                   /\ error_summaries' = IF r.error_summary
                                         THEN error_summaries \cup {<<e, u>>}
                                         ELSE error_summaries
                   /\ IF r.success
                      THEN /\ pc' = "imm_mark"
                           /\ to_mark' = <<e>>
                           /\ failed_units' = failed_units
                                                + (IF r.error_summary THEN 1 ELSE 0)
                           /\ UNCHANGED <<units, counters, failed_pairs>>
                      ELSE /\ NextUnit([counters EXCEPT !.errors = @ + 1])
                           /\ failed_units' = failed_units + 1
                           /\ failed_pairs' = failed_pairs \cup {<<e, u>>}
                           /\ UNCHANGED to_mark
    /\ UNCHANGED <<time, db, runctl, podcast_subscriptions, queue, user_episodes,
                   current_hour, since_date, nows, weekly_log, owed,
                   unmarked_at_kill, digest_done, boundary_seen>>

\* lines 534-536: mark_episode_processed after a successful unit
ImmediateMark ==
    /\ pc = "imm_mark"
    /\ \E raised \in LookupErrors :
         processed_episodes' =
            IF raised THEN processed_episodes
            ELSE mark_episode_processed(processed_episodes, to_mark[1], units[1][2])
    /\ to_mark' = <<>>
    /\ NextUnit([counters EXCEPT !.notifications = @ + 1])
    /\ UNCHANGED <<time, episodes, subscriptions, outside, sched, hist,
                   podcast_subscriptions, queue, user_episodes, current_hour,
                   since_date>>

\* ------------------------------------------------------------ digest paths
\* faulty variant: one digest entry per subscription instead of per user
AddEpisodesPerSubscription(groups, username, eps) == Append(groups, <<username, eps>>)

\* lines 572-576 and 592: user_episodes[username], created empty on first sight
AddEpisodes(groups, username, eps) ==
    IF \E i \in 1..Len(groups) : groups[i][1] = username
    THEN [i \in 1..Len(groups) |->
            IF groups[i][1] = username
            THEN <<username, groups[i][2] \o eps>>
            ELSE groups[i]]
    ELSE Append(groups, <<username, eps>>)

SeqRange(q) == {q[i] : i \in 1..Len(q)}

\* lines 557-569 (daily) and 613-625 (weekly): the subscriptions of the cadence
DigestStart(preference, here, sub_pc, done_pc) ==
    /\ pc = here
    /\ LET digest_subscriptions == ActiveSubscriptions(preference)
       IN  IF digest_subscriptions = <<>>
           THEN /\ pc' = done_pc
                /\ UNCHANGED queue
           ELSE /\ pc' = sub_pc
                /\ queue' = digest_subscriptions
    /\ user_episodes' = <<>>

\* lines 573-592 (daily) and 629-648 (weekly): one subscription of the loop:
\* its clock read, its query and the record lookup of every episode found
DigestSubscription(preference, window, here, send_pc) ==
    /\ pc = here
    /\ LET subscription == queue[1]
           username == subscription.username
           eps == EpisodeQuery(subscription.podcast_id, time - window)
       IN  /\ \E raised \in (IF store_errors THEN SUBSET SeqRange(eps) ELSE {{}}) :
                user_episodes' = AddEpisodes(user_episodes, username,
                   SelectSeq(eps, LAMBDA e :
                       ~is_episode_processed_for_user(e, username, e \in raised)))
           /\ boundary_seen' = SeenAt(preference, eps, time - window)
    /\ since_date' = time - window
    /\ nows' = nows \cup {time}
    /\ queue' = Tail(queue)
    /\ pc' = IF Tail(queue) = <<>> THEN send_pc ELSE here

\* lines 596-600 (daily) and 652-656 (weekly): one user's digest is sent
DigestSend(preference, window, here, mark_pc, done_pc) ==
    /\ pc = here
    /\ IF user_episodes = <<>>
       THEN /\ pc' = done_pc
            /\ digest_done' = digest_done \cup {<<preference, since_date + window>>}
            /\ UNCHANGED <<user_episodes, to_mark, deliveries, failed_units,
                           fault_budget, failed_pairs, messages>>
       ELSE LET username == user_episodes[1][1]
                eps == user_episodes[1][2]
            IN  IF eps = <<>>
                THEN /\ user_episodes' = Tail(user_episodes)
                     /\ pc' = here
                     /\ UNCHANGED <<to_mark, deliveries, failed_units, fault_budget,
                                    failed_pairs, digest_done, messages>>
                ELSE \E send_ok \in CallResults :
                       IF send_ok
                       THEN /\ deliveries' =
                                 [p \in AllPairs |->
                                    IF p[2] = username /\ p[1] \in SeqRange(eps)
                                    THEN deliveries[p] + 1 ELSE deliveries[p]]
                            /\ messages' = Append(messages,
                                    [to |-> username, cadence |-> preference,
                                     body |-> format_daily_digest(eps, <<>>)])
                            /\ to_mark' = eps
                            /\ pc' = mark_pc
                            /\ UNCHANGED <<user_episodes, failed_units, fault_budget,
                                           failed_pairs, digest_done>>
                       ELSE /\ failed_units' = failed_units + 1
                            /\ fault_budget' = fault_budget - 1
                            /\ failed_pairs' = failed_pairs \cup
                                 {<<e, username>> : e \in SeqRange(eps)}
                            /\ user_episodes' = Tail(user_episodes)
                            /\ pc' = here
                            /\ UNCHANGED <<to_mark, deliveries, digest_done, messages>>

\* lines 602-605 (daily) and 658-661 (weekly): one mark_episode_processed of
\* the loop; total_sent counts the digest after the last one
DigestMark(here, send_pc) ==
    /\ pc = here
    /\ \E raised \in LookupErrors :
         processed_episodes' =
            IF raised THEN processed_episodes
            ELSE mark_episode_processed(processed_episodes, to_mark[1],
                                        user_episodes[1][1])
    /\ to_mark' = Tail(to_mark)
    /\ IF Tail(to_mark) = <<>>
       THEN /\ counters' = [counters EXCEPT !.sent = @ + 1]
            /\ user_episodes' = Tail(user_episodes)
            /\ pc' = send_pc
       ELSE /\ pc' = here
            /\ UNCHANGED <<counters, user_episodes>>

\* process_all_notifications, lines 455-459: the daily gate
DailyGate(hour) == hour = DigestHour

GateHour ==
    /\ pc = "gate_hour"
    /\ current_hour' = Hour(time)
    /\ nows' = nows \cup {time}
    /\ pc' = IF DailyGate(Hour(time)) THEN "daily_start" ELSE "gate_weekday"
    /\ UNCHANGED <<time, db, sched, podcast_subscriptions, units, queue,
                   user_episodes, to_mark, since_date, counters, deliveries,
                   failed_units, error_summaries, weekly_log, owed, marks>>

\* process_daily_digest_logic
DailyStart ==
    /\ DigestStart("daily", "daily_start", "daily_sub", "gate_weekday")
    /\ UNCHANGED <<time, db, sched, hist, podcast_subscriptions, units, to_mark,
                   current_hour, since_date, counters>>

DailySubscription ==
    /\ DigestSubscription("daily", DailyWindowHours, "daily_sub", "daily_send")
    /\ UNCHANGED <<time, db, sched, podcast_subscriptions, units, to_mark,
                   current_hour, counters, deliveries, failed_units,
                   error_summaries, weekly_log, owed, failed_pairs,
                   unmarked_at_kill, digest_done, messages>>

DailySend ==
    /\ DigestSend("daily", DailyWindowHours, "daily_send", "daily_mark", "gate_weekday")
    /\ UNCHANGED <<time, db, runctl, podcast_subscriptions, units, queue,
                   current_hour, since_date, counters, nows, error_summaries,
                   weekly_log, owed, unmarked_at_kill, boundary_seen>>

DailyMark ==
    /\ DigestMark("daily_mark", "daily_send")
    /\ UNCHANGED <<time, episodes, subscriptions, outside, sched, hist,
                   podcast_subscriptions, units, queue, current_hour, since_date>>

\* faulty variant: the weekly gate opens from the digest hour on
WeeklyGateFromHour(weekday, hour) == weekday = DigestWeekday /\ hour >= DigestHour

\* process_all_notifications, lines 461-465: the weekly gate
WeeklyGate(weekday, hour) == weekday = DigestWeekday /\ hour = DigestHour

GateWeekday ==
    /\ pc = "gate_weekday"
    /\ nows' = nows \cup {time}
    /\ IF WeeklyGate(Weekday(time), current_hour)
       THEN /\ pc' = "weekly_start"
            /\ weekly_log' = weekly_log \cup
                 {[week |-> Week(time), invoked_at |-> invoked_at,
                   weekday |-> Weekday(time), hour |-> current_hour]}
       ELSE /\ pc' = "finish"
            /\ UNCHANGED weekly_log
    /\ UNCHANGED <<time, db, sched, locals, deliveries, failed_units,
                   error_summaries, owed, marks>>

\* process_weekly_digest_logic
WeeklyStart ==
    /\ DigestStart("weekly", "weekly_start", "weekly_sub", "finish")
    /\ UNCHANGED <<time, db, sched, hist, podcast_subscriptions, units, to_mark,
                   current_hour, since_date, counters>>

WeeklySubscription ==
    /\ DigestSubscription("weekly", WeeklyWindowHours, "weekly_sub", "weekly_send")
    /\ UNCHANGED <<time, db, sched, podcast_subscriptions, units, to_mark,
                   current_hour, counters, deliveries, failed_units,
                   error_summaries, weekly_log, owed, failed_pairs,
                   unmarked_at_kill, digest_done, messages>>

WeeklySend ==
    /\ DigestSend("weekly", WeeklyWindowHours, "weekly_send", "weekly_mark", "finish")
    /\ UNCHANGED <<time, db, runctl, podcast_subscriptions, units, queue,
                   current_hour, since_date, counters, nows, error_summaries,
                   weekly_log, owed, unmarked_at_kill, boundary_seen>>

WeeklyMark ==
    /\ DigestMark("weekly_mark", "weekly_send")
    /\ UNCHANGED <<time, episodes, subscriptions, outside, sched, hist,
                   podcast_subscriptions, units, queue, current_hour, since_date>>

\* ------------------------------------------------------------- scheduling
WindowOf(preference) ==
    CASE preference = "immediate" -> ImmediateWindowHours
      [] preference = "daily" -> DailyWindowHours
      [] preference = "weekly" -> WeeklyWindowHours

Subscribed(u, podcast_id, preference) ==
    \E i \in 1..Len(subscriptions) :
        /\ subscriptions[i].username = u
        /\ subscriptions[i].podcast_id = podcast_id
        /\ subscriptions[i].is_active
        /\ subscriptions[i].notification_preferences = preference

\* the eligibility predicate of a cadence at clock value t
Eligible(e, u, preference, t) ==
    /\ Subscribed(u, episodes[e].podcast_id, preference)
    /\ HasTranscript(e)
    /\ InWindow(episodes[e].published, t - WindowOf(preference))
    /\ ~HasRecord(e, u)

\* modal.Cron("25 */6 * * *"), line 442: one invocation per slot
CronDue == Hour(time) % CronEveryHours = 0 /\ invoked_at # time

\* positions of a run whose next step reads the clock
ClockReads == {"imm_podcast", "gate_hour", "daily_sub", "gate_weekday", "weekly_sub"}

\* process_all_notifications is invoked: by the cron, or again after a kill
Invoke ==
    /\ pc = "idle"
    /\ rerun \/ CronDue
    /\ invoked_at' = IF rerun THEN invoked_at ELSE time
    /\ rerun' = FALSE
    /\ run_ticks' = IF rerun THEN run_ticks ELSE 0
    /\ stalls' = IF rerun THEN stalls ELSE 0
    /\ pc' = "imm_start"
    /\ subscribed_in_run' = ActivePairs(subscriptions)
    /\ UNCHANGED <<time, db, locals, kill_budget, fault_budget, hist>>

\* line 467: the run ends
Finish ==
    /\ pc = "finish"
    /\ pc' = "idle"
    /\ EmptyLocals
    /\ nows' = {}
    /\ failed_units' = 0
    /\ owed' = IF failed_units = 0
               THEN owed \cup {x \in EpisodeIds \X Users \X Cadences :
                                  Eligible(x[1], x[2], x[3], time)}
               ELSE owed
    /\ messages' = <<>>
    /\ UNCHANGED <<time, db, sched, deliveries, error_summaries, weekly_log,
                   failed_pairs, unmarked_at_kill, digest_done, boundary_seen>>

\* the platform kills the run at an arbitrary position (section 5 of the spec)
Kill ==
    /\ pc \notin {"idle"}
    /\ kill_budget > 0
    /\ kill_budget' = kill_budget - 1
    /\ rerun' = TRUE
    /\ pc' = "idle"
    /\ EmptyLocals
    /\ nows' = {}
    /\ failed_units' = 0
    /\ unmarked_at_kill' = unmarked_at_kill \cup
         {p \in AllPairs : deliveries[p] > 0 /\ ~HasRecord(p[1], p[2])}
    /\ UNCHANGED <<time, db, invoked_at, run_ticks, stalls, fault_budget, deliveries,
                   subscribed_in_run,
                   error_summaries, weekly_log, owed, failed_pairs, digest_done,
                   boundary_seen>>
    /\ messages' = <<>>

\* the clock advances between runs, once the due invocation has started
Tick ==
    /\ Elapsed(time) < Horizon
    /\ pc = "idle"
    /\ ~CronDue
    /\ time' = time + 1
    /\ rerun' = FALSE
    /\ UNCHANGED <<db, pc, locals, invoked_at, run_ticks, stalls, kill_budget,
                   subscribed_in_run, fault_budget, hist>>

\* the clock advances inside a run: the work before one of its clock reads
\* (LLM and Telegram calls, store round trips; none has a timeout) took d hours
Stall ==
    /\ pc \in ClockReads
    /\ stalls < MaxStalls
    /\ \E d \in 1..(MaxRunHours - run_ticks) :
         /\ Elapsed(time) + d <= Horizon
         /\ time' = time + d
         /\ run_ticks' = run_ticks + d
    /\ stalls' = stalls + 1
    /\ UNCHANGED <<db, pc, locals, invoked_at, rerun, kill_budget, subscribed_in_run,
                   fault_budget, hist>>

\* ------------------------------------------------------------------- Init
Row(u, p, active, preference) ==
    [username |-> u, podcast_id |-> p, is_active |-> active,
     notification_preferences |-> preference]

Ep(p, published, transcript) ==
    [podcast_id |-> p, published |-> published, transcript |-> transcript]

\* the store at the start of a behaviour; shift moves the publication
\* times with the start of the behaviour
InitStore(shift) ==
    /\ \E c1 \in Cadences, c2 \in {"immediate", "daily"} :
         subscriptions = << Row("u1", 1, TRUE, c1),
                            Row("u2", 1, TRUE, c2),
                            Row("u2", 2, TRUE, "immediate"),
                            Row("u1", 2, FALSE, "immediate") >>
    /\ \E p12 \in {<<-21, -11>>, <<-159, -15>>}, t3 \in {NULL, EMPTY, TEXT} :
         episodes = [e \in EpisodeIds |->
                       CASE e = "e1" -> Ep(1, p12[1] + shift, TEXT)
                         [] e = "e2" -> Ep(1, p12[2] + shift, TEXT)
                         [] e = "e3" -> Ep(1, 7 + shift, t3)
                         [] e = "e4" -> Ep(2, -42 + shift, TEXT)]
    /\ processed_episodes = [p \in AllPairs |-> 0]

\* no subscription operation has been called yet
NoCall == [op |-> "none"]

\* fetch_podcast_episodes has not run yet
NoPoll == [done |-> FALSE, failed |-> {}, ids |-> {}]

\* no run of fetch_transcripts is under way
NoSubmission ==
    [running |-> FALSE, todo |-> <<>>, episode |-> NULL, outcome |-> "none",
     temp_file |-> "none"]

\* the handlers of the bot that may run at the same time
Callers == {"c1", "c2"}

\* no call is under way in the session
NoSession ==
    [pc |-> "idle", username |-> "", podcast_id |-> 0, preference |-> "", existing |-> 0]

\* no message is at hand
NoTelegram ==
    [message |-> <<>>, max_length |-> MaxLength, sent |-> <<>>, via |-> "none"]

InitRun ==
    /\ time \in Starts
    /\ pc = "idle"
    /\ invoked_at = time - CronEveryHours
    /\ podcast_subscriptions = <<>>
    /\ units = <<>>
    /\ queue = <<>>
    /\ user_episodes = <<>>
    /\ to_mark = <<>>
    /\ current_hour = -1
    /\ since_date = 0
    /\ counters = [processed |-> 0, notifications |-> 0, errors |-> 0, sent |-> 0]
    /\ run_ticks = 0
    /\ stalls = 0
    /\ rerun = FALSE
    /\ subscribed_in_run = {}
    /\ deliveries = [p \in AllPairs |-> 0]
    /\ nows = {}
    /\ failed_units = 0
    /\ error_summaries = {}
    /\ weekly_log = {}
    /\ owed = {}
    /\ failed_pairs = {}
    /\ unmarked_at_kill = {}
    /\ digest_done = {}
    /\ boundary_seen = {}
    /\ messages = <<>>
    /\ result = NoCall
    /\ calls = 0
    /\ jobs = <<>>
    /\ s3 = <<>>
    /\ examined = {}
    /\ rolled_back = {}
    /\ bucket = "transcripts"
    /\ polled = NoPoll
    /\ submission = NoSubmission
    /\ ran = ""
    /\ telegram = NoTelegram
    /\ sessions = [c \in Callers |-> NoSession]

Init ==
    /\ InitRun
    /\ InitStore(time - 6)
    /\ store_errors = FALSE
    /\ fault_budget = MaxFaults
    /\ kill_budget = 0

\* the runs may be killed and run again; the external calls succeed
InitKill ==
    /\ InitRun
    /\ InitStore(time - 6)
    /\ store_errors = FALSE
    /\ fault_budget = 0
    /\ kill_budget = MaxKills

\* a user with two subscriptions of one digest cadence; the external calls
\* succeed and no run is killed
InitBatch ==
    /\ InitRun
    /\ \E c1 \in {"daily", "weekly"}, c2 \in Cadences :
         subscriptions = << Row("u1", 1, TRUE, c1),
                            Row("u1", 2, TRUE, c1),
                            Row("u2", 1, TRUE, c2),
                            Row("u2", 2, TRUE, "immediate") >>
    /\ \E t4 \in {EMPTY, TEXT} :
         episodes = [e \in EpisodeIds |->
                       CASE e = "e1" -> Ep(1, -12 + (time - 6), TEXT)
                         [] e = "e2" -> Ep(1, -100 + (time - 6), TEXT)
                         [] e = "e3" -> Ep(2, -5 + (time - 6), TEXT)
                         [] e = "e4" -> Ep(2, -20 + (time - 6), t4)]
    /\ processed_episodes = [p \in AllPairs |-> 0]
    /\ store_errors = FALSE
    /\ fault_budget = 0
    /\ kill_budget = 0

\* ------------------------------------------------- subscription operations
\* database.py: the three operations the bot calls.  Each operator gives the
\* table after the call and the (success, message) pair returned; raised is
\* TRUE when the call ends with an exception instead of returning.
Returned(table, success, message) ==
    [table |-> table, success |-> success, message |-> message, raised |-> FALSE]

\* faulty variant: the exception leaves the operation
StoreErrorRaised(table) ==
    [table |-> table, success |-> FALSE, message |-> "", raised |-> TRUE]

\* except Exception as e: return False, f"Error: {str(e)}"; the session is
\* left without a commit, so the table is as before the call
StoreError(table) == Returned(table, FALSE, "Error: store")

\* select(UserSubscription).where(username, podcast_id).first(): the index of
\* the first matching row, 0 when there is none
FirstRow(table, u, p) ==
    LET found == {i \in 1..Len(table) :
                    table[i].username = u /\ table[i].podcast_id = p}
    IN  IF found = {} THEN 0
        ELSE CHOOSE i \in found : \A j \in found : i <= j

\* faulty variant: an inactive row is not reused, a new row is inserted
subscribe_user_to_podcast_inserting(table, u, p, preference, store_raises) ==
    IF store_raises THEN StoreError(table)
    ELSE LET i == FirstRow(table, u, p)
         IN  IF i # 0 /\ table[i].is_active
             THEN Returned(table, FALSE, "You're already subscribed to this podcast!")
             ELSE Returned(Append(table, Row(u, p, TRUE, preference)),
                           TRUE, "Successfully subscribed!")

\* faulty variant: a reactivated row keeps the cadence it had
subscribe_user_to_podcast_keeping(table, u, p, preference, store_raises) ==
    IF store_raises THEN StoreError(table)
    ELSE LET i == FirstRow(table, u, p)
         IN  IF i # 0
             THEN IF table[i].is_active
                  THEN Returned(table, FALSE, "You're already subscribed to this podcast!")
                  ELSE Returned([table EXCEPT ![i].is_active = TRUE],
                                TRUE, "Subscription reactivated!")
             ELSE Returned(Append(table, Row(u, p, TRUE, preference)),
                           TRUE, "Successfully subscribed!")

\* lines 145-180
subscribe_user_to_podcast(table, u, p, preference, store_raises) ==
    IF store_raises THEN StoreError(table)
    ELSE LET i == FirstRow(table, u, p)
         IN  IF i # 0
             THEN IF table[i].is_active
                  THEN Returned(table, FALSE, "You're already subscribed to this podcast!")
                  ELSE Returned([table EXCEPT ![i].is_active = TRUE,
                                              ![i].notification_preferences = preference],
                                TRUE, "Subscription reactivated!")
             ELSE Returned(Append(table, Row(u, p, TRUE, preference)),
                           TRUE, "Successfully subscribed!")

\* faulty variant: the row is deleted
unsubscribe_user_from_podcast_deleting(table, u, p, store_raises) ==
    IF store_raises THEN StoreError(table)
    ELSE LET i == FirstRow(table, u, p)
         IN  IF i = 0
             THEN Returned(table, FALSE, "You're not subscribed to this podcast.")
             ELSE IF ~table[i].is_active
             THEN Returned(table, FALSE, "You're already unsubscribed from this podcast.")
             ELSE Returned(SubSeq(table, 1, i - 1) \o SubSeq(table, i + 1, Len(table)),
                           TRUE, "Successfully unsubscribed!")

\* lines 194-219
unsubscribe_user_from_podcast(table, u, p, store_raises) ==
    IF store_raises THEN StoreError(table)
    ELSE LET i == FirstRow(table, u, p)
         IN  IF i = 0
             THEN Returned(table, FALSE, "You're not subscribed to this podcast.")
             ELSE IF ~table[i].is_active
             THEN Returned(table, FALSE, "You're already unsubscribed from this podcast.")
             ELSE Returned([table EXCEPT ![i].is_active = FALSE], TRUE, "Successfully unsubscribed!")

\* faulty variant: an inactive row counts as no row
update_subscription_preferences_active_only(table, u, p, preference, store_raises) ==
    IF store_raises THEN StoreError(table)
    ELSE LET i == FirstRow(table, u, p)
         IN  IF i = 0 \/ ~table[i].is_active
             THEN Returned(table, FALSE, "Subscription not found.")
             ELSE Returned([table EXCEPT ![i].notification_preferences = preference],
                           TRUE, "Preferences updated!")

\* lines 361-382
update_subscription_preferences(table, u, p, preference, store_raises) ==
    IF store_raises THEN StoreError(table)
    ELSE LET i == FirstRow(table, u, p)
         IN  IF i = 0
             THEN Returned(table, FALSE, "Subscription not found.")
             ELSE Returned([table EXCEPT ![i].notification_preferences = preference],
                           TRUE, "Preferences updated!")

StoreRaises == IF store_errors THEN BOOLEAN ELSE {FALSE}

\* history: the pairs active at some time of the run under way, when the
\* table becomes table
SubscribedInRun(table) ==
    IF pc = "idle" THEN subscribed_in_run
    ELSE subscribed_in_run \cup ActivePairs(table)

\* one call of the bot; r is what the operation gave
Called(op, u, p, preference, store_raises, r) ==
    /\ calls < MaxCalls
    /\ calls' = calls + 1
    /\ subscriptions' = r.table
    /\ result' = [op |-> op, username |-> u, podcast_id |-> p,
                  preference |-> preference, store_raised |-> store_raises,
                  success |-> r.success, message |-> r.message, raised |-> r.raised]
    /\ subscribed_in_run' = SubscribedInRun(r.table)
    /\ UNCHANGED <<time, episodes, processed_episodes, store_errors, pipeline,
                   front, pc, locals, invoked_at, run_ticks, stalls, rerun,
                   kill_budget, fault_budget, hist>>

Subscribe ==
    \E u \in Users, p \in Podcasts, c \in Cadences, x \in StoreRaises :
        Called("subscribe", u, p, c, x,
               subscribe_user_to_podcast(subscriptions, u, p, c, x))

Unsubscribe ==
    \E u \in Users, p \in Podcasts, x \in StoreRaises :
        Called("unsubscribe", u, p, "", x,
               unsubscribe_user_from_podcast(subscriptions, u, p, x))

UpdatePreferences ==
    \E u \in Users, p \in Podcasts, c \in Cadences, x \in StoreRaises :
        Called("update", u, p, c, x,
               update_subscription_preferences(subscriptions, u, p, c, x))

\* the bot's calls on a store that starts without subscriptions and may raise
InitSubs ==
    /\ InitRun
    /\ time = 6
    /\ subscriptions = <<>>
    /\ episodes = [e \in EpisodeIds |-> Ep(1, 0, NULL)]
    /\ processed_episodes = [p \in AllPairs |-> 0]
    /\ store_errors = TRUE
    /\ fault_budget = 0
    /\ kill_budget = 0

NextSubs ==
    \/ Subscribe
    \/ Unsubscribe
    \/ UpdatePreferences

\* ------------------------------------------------- the transcript pipeline
\* The feeds, which do not change: two entries of podcast 1 with the same
\* enclosure, one of them with a transcript link; three entries of podcast 2,
\* one whose date cannot be parsed, one whose audio has a format the
\* transcription service does not take, one without audio.
Feed ==
    { [title |-> "t1", published |-> "Mon, 00:00", podcast_id |-> 1,
       audio_url |-> "http://h/a1.mp3", transcript_url |-> "http://h/t1"],
      [title |-> "t2", published |-> "Mon, 00:00", podcast_id |-> 1,
       audio_url |-> "http://h/a1.mp3", transcript_url |-> NULL],
      [title |-> "t3", published |-> "soon", podcast_id |-> 2,
       audio_url |-> "http://h/a3.MP3", transcript_url |-> NULL],
      [title |-> "t4", published |-> "Mon, 00:00", podcast_id |-> 2,
       audio_url |-> "http://h/a4.m4a", transcript_url |-> NULL],
      [title |-> "t5", published |-> "Mon, 00:00", podcast_id |-> 2,
       audio_url |-> NULL, transcript_url |-> NULL] }

\* the date strings dateutil can parse, with the hour they denote
ParsableDates == [d \in {"Mon, 00:00"} |-> 0]

\* days = 10, in hours
LookbackHours == 240

\* rss_parser.py parse_published_date, lines 90-108: the parsed date, and the
\* current time when the string cannot be parsed
parse_published_date(published_str, now) ==
    IF published_str \in DOMAIN ParsableDates
    THEN ParsableDates[published_str]
    ELSE now

\* rss_parser.py extract_episode_id, lines 22-26: the digest of
\* "<title>-<published>" where published is the parsed date of the episode
\* data; the pair stands for the digest
extract_episode_id(title, published) ==
    <<title, published>>

\* rss_parser.py fetch_transcript: None when the page cannot be fetched, else
\* the joined text of the page, which may be the empty string
FeedTranscripts == {NULL, EMPTY, TEXT}

LinkedTitles == {entry.title : entry \in {x \in Feed : x.transcript_url # NULL}}

\* rss_parser.py get_episodes_since, lines 140-172: the episode data of the
\* entries of podcast p published after since; fetched is what the
\* transcript links give
get_episodes_since(p, since, now, fetched) ==
    { [id |-> extract_episode_id(entry.title,
                                 parse_published_date(entry.published, now)),
       title |-> entry.title,
       published |-> parse_published_date(entry.published, now),
       podcast_id |-> p,
       audio_url |-> entry.audio_url,
       transcript |-> IF entry.transcript_url # NULL THEN fetched[entry.title] ELSE NULL]
      : entry \in {x \in Feed : /\ x.podcast_id = p
                                /\ parse_published_date(x.published, now) > since} }

\* Episode(**episode_data)
Episode(data) ==
    [podcast_id |-> data.podcast_id, published |-> data.published,
     transcript |-> data.transcript, audio_url |-> data.audio_url,
     title |-> data.title]

PodcastOf(e) == episodes[e].podcast_id

AudioUrl(e) == episodes[e].audio_url

\* faulty variant: a stored episode is overwritten with the data of the feed
store_episodes_upserting(eps, listed) ==
    [id \in DOMAIN eps \cup {d.id : d \in listed} |->
        IF id \in {d.id : d \in listed}
        THEN Episode(CHOOSE d \in listed : d.id = id)
        ELSE eps[id]]

\* lines 82-98: an entry whose id is stored is skipped, the others are added
store_new_episodes(eps, listed) ==
    [id \in DOMAIN eps \cup {d.id : d \in listed} |->
        IF id \in DOMAIN eps
        THEN eps[id]
        ELSE Episode(CHOOSE d \in listed : d.id = id)]

\* faulty variant: the first failure ends the run
PodcastsUntilFailure(failed) ==
    {p \in Podcasts : \A q \in failed : p < q}

\* lines 60-104: the podcasts whose episodes get stored, when the fetch, the
\* parse or the commit of the podcasts in failed raises; each podcast has its
\* own try, commit and rollback
PodcastsStored(failed) == Podcasts \ failed

\* fetch_podcast_episodes, lines 37-107
fetch_podcast_episodes ==
    \E failed \in SUBSET Podcasts :
        \E fetched \in [LinkedTitles -> FeedTranscripts] :
            LET listed == UNION {get_episodes_since(p, time - LookbackHours, time, fetched)
                                   : p \in PodcastsStored(failed)}
            IN  /\ episodes' = store_new_episodes(episodes, listed)
                /\ polled' = [done |-> TRUE, failed |-> failed,
                              ids |-> {<<d.title, d.id>> : d \in listed}]
                /\ ~submission.running
                /\ ran' = ""
                /\ submission' = NoSubmission
                /\ examined' = {}
                /\ rolled_back' = {}
                /\ UNCHANGED <<time, subscriptions, processed_episodes, store_errors,
                               result, calls, front, jobs, s3, bucket, pc, locals, sched, hist>>

\* get_episodes_needing_transcripts, lines 227-237
get_episodes_needing_transcripts ==
    {e \in DOMAIN episodes : episodes[e].transcript = NULL}

\* the rows of a select come in the order of the table, which the model
\* takes to be by title, then by date
TitleOrder == <<"t1", "t2", "t3", "t4", "t5">>

Rank(title) == CHOOSE i \in 1..Len(TitleOrder) : TitleOrder[i] = title

RowBefore(x, y) ==
    \/ Rank(x[1]) < Rank(y[1])
    \/ Rank(x[1]) = Rank(y[1]) /\ x[2] <= y[2]

RECURSIVE InTableOrder(_)
InTableOrder(rows) ==
    IF rows = {} THEN <<>>
    ELSE LET first == CHOOSE x \in rows : \A y \in rows : RowBefore(x, y)
         IN  <<first>> \o InTableOrder(rows \ {first})

\* download_audio, lines 129-133: the extension of the URL's path, mp3 when
\* there is none
UrlExtension ==
    [u \in {"http://h/a1.mp3", "http://h/a3.MP3", "http://h/a4.m4a"} |->
        CASE u = "http://h/a1.mp3" -> "mp3"
          [] u = "http://h/a3.MP3" -> "MP3"
          [] OTHER -> "m4a"]

file_ext(audio_url) ==
    IF audio_url \in DOMAIN UrlExtension THEN UrlExtension[audio_url] ELSE "mp3"

\* str.lower on the extensions of the model
Lower(ext) == IF ext = "MP3" THEN "mp3" ELSE ext

AllowedFormats == {"mp3", "mp4", "wav", "flac", "ogg", "amr", "webm"}

\* faulty variant: the format is not looked at
transcribe_episode_any_format(ext, start_raises) ==
    IF start_raises THEN NULL ELSE "job"

\* transcribe_episode, lines 173-224: the name of the job, None when the
\* format of the uploaded object (episodes/<id>.<ext>) is not allowed or the
\* start of the job raises
transcribe_episode(ext, start_raises) ==
    IF Lower(ext) \notin AllowedFormats THEN NULL
    ELSE IF start_raises THEN NULL
    ELSE "job"

TranscriptionJob(e) ==
    [audio_url |-> AudioUrl(e), transcript_uri |-> e, status |-> "STARTED"]

\* faulty variant: the bucket name is not checked
NotSetIgnored(name) == FALSE

\* lines 246-250 and 366-370: "if not output_bucket", the environment variable
\* TRANSCRIPT_S3_BUCKET is missing
NotSet(name) == name = NULL

\* fetch_transcripts, lines 242-262: the bucket is read, the episodes without
\* transcript are read, and the loop starts
fetch_transcripts ==
    /\ ~submission.running
    /\ submission' =
          IF NotSet(bucket)
          THEN [NoSubmission EXCEPT !.outcome = "no_bucket"]
          ELSE IF get_episodes_needing_transcripts = {}
          THEN [NoSubmission EXCEPT !.outcome = "no_episodes"]
          ELSE [running |-> TRUE,
                todo |-> InTableOrder(get_episodes_needing_transcripts),
                episode |-> NULL, outcome |-> "selected", temp_file |-> "none"]
    /\ ran' = ""
    /\ polled' = NoPoll
    /\ examined' = {}
    /\ rolled_back' = {}
    /\ UNCHANGED <<time, episodes, subscriptions, processed_episodes, store_errors,
                   result, calls, front, jobs, s3, bucket, pc, locals, sched, hist>>

\* the ways one iteration of the loop can go for episode e
IterationOutcomes(e) ==
    IF AudioUrl(e) = NULL THEN {"no_audio"}
    ELSE {"download_failed", "upload_failed"}
         \cup {IF transcribe_episode(file_ext(AudioUrl(e)), raises) = NULL
               THEN (IF raises THEN "start_failed" ELSE "not_started")
               ELSE "job_started" : raises \in BOOLEAN}
         \cup (IF transcribe_episode(file_ext(AudioUrl(e)), FALSE) # NULL /\ store_errors
               THEN {"commit_failed"} ELSE {})

\* the temporary file of an iteration when the iteration has ended: none was
\* created without audio URL; download_audio creates it before it requests
\* the URL (lines 135-144) and does not remove it when the request fails;
\* after a download the finally clause of the loop removes it (lines 324-329)
TempFileAfter(outcome) ==
    CASE outcome = "no_audio" -> "none"
      [] outcome = "download_failed" -> "left"
      [] OTHER -> "removed"

\* for episode in episodes: every path of the body goes on with the next episode
TodoAfter(todo, outcome) == Tail(todo)

\* one iteration of the loop of fetch_transcripts, lines 262-329
fetch_transcripts_episode ==
    /\ submission.running
    /\ LET e == Head(submission.todo)
       IN  \E outcome \in IterationOutcomes(e) :
              /\ outcome = "job_started" => Len(jobs) < MaxJobs
              /\ jobs' = IF outcome = "job_started"
                         THEN Append(jobs, TranscriptionJob(e))
                         ELSE jobs
              /\ submission' = [running |-> TodoAfter(submission.todo, outcome) # <<>>,
                                todo |-> TodoAfter(submission.todo, outcome),
                                episode |-> e, outcome |-> outcome,
                                temp_file |-> TempFileAfter(outcome)]
    /\ UNCHANGED <<time, episodes, subscriptions, processed_episodes, store_errors,
                   result, calls, front, s3, examined, rolled_back, bucket, polled, ran,
                   pc, locals, sched, hist>>

\* what the transcription service can leave under a job's output key: a
\* result without or with transcripts; "absent" stands for no object and for
\* one that cannot be read as JSON
S3Objects == {"no_transcripts", "transcripts"}

\* s3_client.get_object on the key of a job's transcript
get_object(key) == IF key \in DOMAIN s3 THEN s3[key] ELSE "absent"

\* the service writes the output of a job
TranscriptWritten ==
    \E i \in 1..Len(jobs), object \in S3Objects :
        /\ get_object(jobs[i].transcript_uri) # object
        /\ s3' = [key \in DOMAIN s3 \cup {jobs[i].transcript_uri} |->
                     IF key = jobs[i].transcript_uri THEN object ELSE s3[key]]
        /\ ~submission.running
        /\ ran' = ""
        /\ polled' = NoPoll
        /\ submission' = NoSubmission
        /\ examined' = {}
        /\ rolled_back' = {}
        /\ UNCHANGED <<time, episodes, subscriptions, processed_episodes,
                       store_errors, result, calls, front, jobs, bucket,
                       pc, locals, sched, hist>>

\* the secret that holds TRANSCRIPT_S3_BUCKET is set or removed between runs
BucketChanges ==
    /\ bucket' = IF bucket = NULL THEN "transcripts" ELSE NULL
    /\ ~submission.running
    /\ ran' = ""
    /\ polled' = NoPoll
    /\ submission' = NoSubmission
    /\ examined' = {}
    /\ rolled_back' = {}
    /\ UNCHANGED <<time, episodes, subscriptions, processed_episodes,
                   store_errors, result, calls, front, jobs, s3,
                   pc, locals, sched, hist>>

\* time passes between two runs of the pipeline
ClockAdvances ==
    /\ Elapsed(time) < Horizon
    /\ ~submission.running
    /\ time' = time + 1
    /\ UNCHANGED <<db, pc, locals, sched, hist>>

\* extract_transcript_text, lines 334-353
extract_transcript_text(object) ==
    IF object = "transcripts" THEN TEXT ELSE EMPTY

\* faulty variant: every job is selected
JobsToExamineAll(table) == 1..Len(table)

\* select(TranscriptionJob).where(status != "COMPLETED"), lines 374-377
JobsToExamine(table) ==
    {i \in 1..Len(table) : table[i].status # "COMPLETED"}

\* select(Episode).where(audio_url == job.audio_url): the rows .first() may give
Matches(eps, audio_url) ==
    {e \in DOMAIN eps : eps[e].audio_url = audio_url}

Store(eps, js) == [episodes |-> eps, jobs |-> js]

\* faulty variant: the job is completed whatever text was extracted
process_job_any_text(i, eps, js, first, commit_raises) ==
    IF js[i].transcript_uri = NULL \/ get_object(js[i].transcript_uri) = "absent"
    THEN Store(eps, js)
    ELSE LET text == extract_transcript_text(get_object(js[i].transcript_uri))
         IN  IF Matches(eps, js[i].audio_url) = {} \/ commit_raises THEN Store(eps, js)
             ELSE Store([eps EXCEPT ![first].transcript = text],
                        [js EXCEPT ![i].status = "COMPLETED"])

\* faulty variant: a job without transcript object is given up
process_job_giving_up(i, eps, js, first, commit_raises) ==
    IF js[i].transcript_uri = NULL \/ get_object(js[i].transcript_uri) = "absent"
    THEN Store(eps, [js EXCEPT ![i].status = "FAILED"])
    ELSE LET text == extract_transcript_text(get_object(js[i].transcript_uri))
         IN  IF text = EMPTY \/ Matches(eps, js[i].audio_url) = {} \/ commit_raises
             THEN Store(eps, js)
             ELSE Store([eps EXCEPT ![first].transcript = text],
                        [js EXCEPT ![i].status = "COMPLETED"])

\* the body of the loop, lines 385-436; first is the episode .first() gives
\* for the job's audio URL when there is one
process_job(i, eps, js, first, commit_raises) ==
    IF js[i].transcript_uri = NULL \/ get_object(js[i].transcript_uri) = "absent"
    THEN Store(eps, js)
    ELSE LET text == extract_transcript_text(get_object(js[i].transcript_uri))
         IN  IF text = EMPTY \/ Matches(eps, js[i].audio_url) = {} \/ commit_raises
             THEN Store(eps, js)
             ELSE Store([eps EXCEPT ![first].transcript = text],
                        [js EXCEPT ![i].status = "COMPLETED"])

\* faulty variant: a job that fails ends the loop
LoopStopsOnFailure(i, n, failed) == IF failed THEN n + 1 ELSE i + 1

\* for job in jobs: every path of the body, the continue statements and the
\* except clause included, goes on with the next job of the n selected
LoopContinues(i, n, failed) == i + 1

\* the loop over the selected jobs, in table order from job i on
RECURSIVE process_jobs(_, _, _, _, _, _)
process_jobs(i, selected, eps, js, first, bad) ==
    IF i > Len(js) THEN Store(eps, js)
    ELSE IF i \notin selected THEN process_jobs(i + 1, selected, eps, js, first, bad)
    ELSE LET after == process_job(i, eps, js, first[i], i \in bad)
         IN  process_jobs(LoopContinues(i, Len(js), after.jobs[i].status # "COMPLETED"),
                          selected, after.episodes, after.jobs, first, bad)

\* process_completed_transcripts, lines 356-437: what a run does to the
\* jobs and the episodes
CompletedTranscriptsProcessed ==
    LET selected == IF NotSet(bucket) THEN {} ELSE JobsToExamine(jobs)
    IN  /\ ran' = "process_completed_transcripts"
        /\ polled' = NoPoll
        /\ \E bad \in (IF store_errors THEN SUBSET selected ELSE {{}}) :
           \E first \in [1..Len(jobs) -> DOMAIN episodes] :
              /\ \A i \in 1..Len(jobs) :
                    \/ Matches(episodes, jobs[i].audio_url) = {}
                    \/ first[i] \in Matches(episodes, jobs[i].audio_url)
              /\ LET after == process_jobs(1, selected, episodes, jobs, first, bad)
                 IN  /\ episodes' = after.episodes
                     /\ jobs' = after.jobs
                     /\ examined' = selected
                     /\ rolled_back' = bad
        /\ UNCHANGED <<time, subscriptions, processed_episodes, store_errors, result,
                       calls, front, s3, bucket, pc, locals, sched, hist>>

\* a run of process_completed_transcripts while no run of fetch_transcripts
\* is under way
process_completed_transcripts ==
    /\ ~submission.running
    /\ submission' = NoSubmission
    /\ CompletedTranscriptsProcessed

\* the cron starts process_completed_transcripts at minute 20 whether or not
\* the run of fetch_transcripts started at minute 5 has ended: a run of it
\* between two iterations of the loop of fetch_transcripts
process_completed_transcripts_meanwhile ==
    /\ submission.running
    /\ UNCHANGED submission
    /\ CompletedTranscriptsProcessed

\* the three scheduled functions of the pipeline on an empty store
InitJobs ==
    /\ InitRun
    /\ time = 6
    /\ subscriptions = <<>>
    /\ episodes = <<>>
    /\ processed_episodes = [p \in AllPairs |-> 0]
    /\ store_errors = TRUE
    /\ fault_budget = 0
    /\ kill_budget = 0

\* the feeds are polled again and again while time passes
NextPoll ==
    \/ fetch_podcast_episodes
    \/ ClockAdvances

NextJobs ==
    \/ fetch_podcast_episodes
    \/ fetch_transcripts
    \/ fetch_transcripts_episode
    \/ TranscriptWritten
    \/ process_completed_transcripts
    \/ BucketChanges

\* the runs of the two functions may overlap
NextOverlap ==
    \/ NextJobs
    \/ process_completed_transcripts_meanwhile

SpecOverlap == InitJobs /\ [][NextOverlap]_vars

\* ------------------------------------------------ messages to Telegram
\* analyze_transcripts.py split_message and send_telegram_message, and
\* fetch_episodes_with_modal.py send_telegram_notification_sync.  A string is
\* the sequence of its characters.

Chars == {"a", " ", "\n"}

Whitespace == {" ", "\n"}

\* the messages of at most MaxChars characters
Messages == UNION {[1..n -> Chars] : n \in 0..MaxChars}

\* the places where s has the separator "\n\n"
SeparatorAt(s) ==
    {i \in 1..(Len(s) - 1) : s[i] = "\n" /\ s[i + 1] = "\n"}

Min(S) == CHOOSE x \in S : \A y \in S : x <= y

Max(S) == CHOOSE x \in S : \A y \in S : x >= y

\* str.split('\n\n'): the separators are taken from the left, without overlap
RECURSIVE split(_)
split(s) ==
    IF SeparatorAt(s) = {}
    THEN <<s>>
    ELSE <<SubSeq(s, 1, Min(SeparatorAt(s)) - 1)>>
         \o split(SubSeq(s, Min(SeparatorAt(s)) + 2, Len(s)))

\* str.strip(): the whitespace at both ends is removed
strip(s) ==
    LET kept == {i \in 1..Len(s) : s[i] \notin Whitespace}
    IN  IF kept = {} THEN <<>> ELSE SubSeq(s, Min(kept), Max(kept))

\* line 74: adding the paragraph would exceed the limit, and the chunk at
\* hand is not empty
StartsNewChunk(current_chunk, paragraph, max_length) ==
    /\ Len(current_chunk) + Len(paragraph) + 2 > max_length
    /\ current_chunk # <<>>

\* lines 79-82: the paragraph is added to the chunk at hand
Added(current_chunk, paragraph) ==
    IF current_chunk # <<>>
    THEN current_chunk \o <<"\n", "\n">> \o paragraph
    ELSE paragraph

\* lines 72-86: the loop over the paragraphs from the i-th on, and the last chunk
RECURSIVE split_loop(_, _, _, _, _)
split_loop(paragraphs, i, current_chunk, chunks, max_length) ==
    IF i > Len(paragraphs)
    THEN IF current_chunk # <<>> THEN Append(chunks, strip(current_chunk)) ELSE chunks
    ELSE IF StartsNewChunk(current_chunk, paragraphs[i], max_length)
    THEN split_loop(paragraphs, i + 1, Added(<<>>, paragraphs[i]),
                    Append(chunks, strip(current_chunk)), max_length)
    ELSE split_loop(paragraphs, i + 1, Added(current_chunk, paragraphs[i]),
                    chunks, max_length)

\* analyze_transcripts.py split_message, lines 54-88
split_message(message, max_length) ==
    IF Len(message) <= max_length
    THEN <<message>>
    ELSE split_loop(split(message), 1, <<>>, <<>>, max_length)

\* build_episode_message, format_immediate_notification and the digest
\* formats give the message to send
MessageBuilt ==
    /\ telegram = NoTelegram
    /\ \E message \in Messages \ {<<>>} :
          telegram' = [NoTelegram EXCEPT !.message = message]
    /\ UNCHANGED <<time, episodes, subscriptions, processed_episodes, store_errors,
                   result, calls, pipeline, sessions, pc, locals, sched, hist>>

\* analyze_transcripts.py send_telegram_message, lines 90-124: the message is
\* split and client.send_message is called with each chunk in turn
send_telegram_message ==
    /\ telegram.via = "none"
    /\ telegram' = [telegram EXCEPT
                       !.sent = split_message(telegram.message, telegram.max_length),
                       !.via = "send_telegram_message"]
    /\ UNCHANGED <<time, episodes, subscriptions, processed_episodes, store_errors,
                   result, calls, pipeline, sessions, pc, locals, sched, hist>>

\* fetch_episodes_with_modal.py send_telegram_notification_sync, lines
\* 736-769: client.send_message is called once, with the message
send_telegram_notification_sync ==
    /\ telegram.via = "none"
    /\ telegram' = [telegram EXCEPT
                       !.sent = <<telegram.message>>,
                       !.via = "send_telegram_notification_sync"]
    /\ UNCHANGED <<time, episodes, subscriptions, processed_episodes, store_errors,
                   result, calls, pipeline, sessions, pc, locals, sched, hist>>

NextTelegram ==
    \/ MessageBuilt
    \/ send_telegram_message
    \/ send_telegram_notification_sync

SpecTelegram == InitJobs /\ [][NextTelegram]_vars

Next ==
    \/ Invoke
    \/ ImmediateStart
    \/ ImmediatePodcast
    \/ ImmediateUnit
    \/ ImmediateMark
    \/ GateHour
    \/ DailyStart
    \/ DailySubscription
    \/ DailySend
    \/ DailyMark
    \/ GateWeekday
    \/ WeeklyStart
    \/ WeeklySubscription
    \/ WeeklySend
    \/ WeeklyMark
    \/ Finish
    \/ Tick
    \/ Stall

NextKill ==
    \/ Next
    \/ Kill

Spec == Init /\ [][Next]_vars

SpecKill == InitKill /\ [][NextKill]_vars

SpecBatch == InitBatch /\ [][Next]_vars

SpecSubs == InitSubs /\ [][NextSubs]_vars

\* ------------------------------- the scheduler while the bot changes rows
\* the user and the podcast of the bot's calls during the runs
Churners == {"u1"}
ChurnPodcasts == {1}

ChurnSubscribe ==
    \E u \in Churners, p \in ChurnPodcasts, c \in Cadences, x \in StoreRaises :
        Called("subscribe", u, p, c, x,
               subscribe_user_to_podcast(subscriptions, u, p, c, x))

ChurnUnsubscribe ==
    \E u \in Churners, p \in ChurnPodcasts, x \in StoreRaises :
        Called("unsubscribe", u, p, "", x,
               unsubscribe_user_from_podcast(subscriptions, u, p, x))

ChurnUpdatePreferences ==
    \E u \in Churners, p \in ChurnPodcasts, c \in Cadences, x \in StoreRaises :
        Called("update", u, p, c, x,
               update_subscription_preferences(subscriptions, u, p, c, x))

\* Monday 06:00: two episodes of podcast 1 with transcripts, published within
\* the last day, one subscriber of each podcast; every call succeeds and no
\* run is killed
InitChurn ==
    /\ InitRun
    /\ time = 6
    /\ subscriptions = << Row("u2", 2, TRUE, "daily") >>
    /\ episodes = [e \in EpisodeIds |->
                     CASE e = "e1" -> Ep(1, -5, TEXT)
                       [] e = "e2" -> Ep(1, 8, TEXT)
                       [] e = "e3" -> Ep(1, -100, NULL)
                       [] e = "e4" -> Ep(2, -6, TEXT)]
    /\ processed_episodes = [p \in AllPairs |-> 0]
    /\ store_errors = FALSE
    /\ fault_budget = 0
    /\ kill_budget = 0

NextChurn ==
    \/ Next
    \/ ChurnSubscribe
    \/ ChurnUnsubscribe
    \/ ChurnUpdatePreferences

SpecChurn == InitChurn /\ [][NextChurn]_vars

\* ------------------------------------- the scheduler on a failing store
\* the calls to the store made through database.py may raise; the other
\* external calls succeed and no run is killed
InitErrors ==
    /\ InitRun
    /\ time = 6
    /\ subscriptions = << Row("u1", 1, TRUE, "immediate"),
                          Row("u2", 1, TRUE, "daily"),
                          Row("u2", 2, TRUE, "weekly") >>
    /\ episodes = [e \in EpisodeIds |->
                     CASE e = "e1" -> Ep(1, 1, TEXT)
                       [] e = "e2" -> Ep(1, -30, TEXT)
                       [] e = "e3" -> Ep(2, 2, TEXT)
                       [] e = "e4" -> Ep(2, -100, NULL)]
    /\ processed_episodes = [p \in AllPairs |-> 0]
    /\ store_errors = TRUE
    /\ fault_budget = 0
    /\ kill_budget = 0

SpecErrors == InitErrors /\ [][Next]_vars

\* --------------------------------- from the poll to the immediate message
\* The store after a poll on Monday before 06:00: e1 was stored by the poll,
\* being at most LookbackHours old, without transcript; e2 and e4 came with a
\* transcript from their feed.  fetch_transcripts, the transcription service,
\* process_completed_transcripts and the scheduler go on from there; the
\* store answers every call and no run is killed.
StoredEpisode(p, published, transcript, audio_url, title) ==
    Episode([podcast_id |-> p, published |-> published, transcript |-> transcript,
             audio_url |-> audio_url, title |-> title])

\* how long before 06:00 the poll found e1 published, in hours
PollAges == {5, 45, 60}

InitLate ==
    /\ InitRun
    /\ time = 6
    /\ subscriptions = << Row("u1", 1, TRUE, "immediate"),
                          Row("u2", 1, TRUE, "daily"),
                          Row("u2", 2, TRUE, "weekly") >>
    /\ \E age \in PollAges :
         /\ age <= LookbackHours
         /\ episodes = [e \in EpisodeIds |->
              CASE e = "e1" -> StoredEpisode(1, 6 - age, NULL, "http://h/a1.mp3", "t1")
                [] e = "e2" -> StoredEpisode(1, 1, TEXT, "http://h/a2.mp3", "t2")
                [] e = "e3" -> StoredEpisode(2, 1, NULL, NULL, "t3")
                [] e = "e4" -> StoredEpisode(2, 1, TEXT, "http://h/a4.mp3", "t4")]
    /\ processed_episodes = [p \in AllPairs |-> 0]
    /\ store_errors = FALSE
    /\ fault_budget = 0
    /\ kill_budget = 0

\* fetch_transcripts, lines 242-331, from its first line to its return: every
\* episode without transcript goes through one iteration of the loop, in the
\* order of the table, and those whose job was started get their job row
fetch_transcripts_whole ==
    /\ ~submission.running
    /\ ~NotSet(bucket)
    /\ get_episodes_needing_transcripts # {}
    /\ \E outcome \in [get_episodes_needing_transcripts ->
                          UNION {IterationOutcomes(e) : e \in get_episodes_needing_transcripts}] :
         LET todo == SelectSeq(EpisodeTable,
                               LAMBDA e : e \in get_episodes_needing_transcripts)
             started == SelectSeq(todo, LAMBDA e : outcome[e] = "job_started")
             last == todo[Len(todo)]
         IN  /\ \A e \in get_episodes_needing_transcripts :
                    outcome[e] \in IterationOutcomes(e)
             /\ Len(jobs) + Len(started) <= MaxJobs
             /\ jobs' = jobs \o [i \in 1..Len(started) |-> TranscriptionJob(started[i])]
             /\ submission' = [running |-> FALSE, todo |-> <<>>, episode |-> last,
                               outcome |-> outcome[last],
                               temp_file |-> TempFileAfter(outcome[last])]
    /\ ran' = ""
    /\ polled' = NoPoll
    /\ examined' = {}
    /\ rolled_back' = {}
    /\ UNCHANGED <<time, episodes, subscriptions, processed_episodes, store_errors,
                   result, calls, front, s3, bucket, pc, locals, sched, hist>>

NextLate ==
    \/ Next
    \/ fetch_transcripts_whole
    \/ TranscriptWritten
    \/ process_completed_transcripts

SpecLate == InitLate /\ [][NextLate]_vars

\* ---------------------------------------------- subscribe calls in parallel
\* database.py subscribe_user_to_podcast, lines 145-180, taken in its two
\* round trips to the store: the select, and the commit of what the select
\* made the call decide.  The handlers of the bot run each call in a session
\* of its own; UserSubscription (models.py 45-72) has no unique constraint on
\* (username, podcast_id).

\* lines 147-159: the select; a call that finds an active row returns
SubscribeLooksUp(c) ==
    /\ sessions[c].pc = "idle"
    /\ calls < MaxCalls
    /\ calls' = calls + 1
    /\ \E u \in Users, p \in Podcasts, preference \in Cadences :
          LET i == FirstRow(subscriptions, u, p)
          IN  sessions' = [sessions EXCEPT ![c] =
                  IF i # 0 /\ subscriptions[i].is_active
                  THEN NoSession
                  ELSE [pc |-> "found", username |-> u, podcast_id |-> p,
                        preference |-> preference, existing |-> i]]
    /\ UNCHANGED <<time, episodes, subscriptions, processed_episodes, store_errors,
                   result, pipeline, telegram, pc, locals, sched, hist>>

\* lines 161-176: the row the select gave is reactivated, or a row is added
\* when it gave none; the commit may raise
SubscribeCommits(c) ==
    /\ sessions[c].pc = "found"
    /\ \E store_raises \in StoreRaises :
          subscriptions' =
              IF store_raises THEN subscriptions
              ELSE IF sessions[c].existing # 0
              THEN [subscriptions EXCEPT
                       ![sessions[c].existing].is_active = TRUE,
                       ![sessions[c].existing].notification_preferences =
                            sessions[c].preference]
              ELSE Append(subscriptions,
                          Row(sessions[c].username, sessions[c].podcast_id, TRUE,
                              sessions[c].preference))
    /\ sessions' = [sessions EXCEPT ![c] = NoSession]
    /\ subscribed_in_run' = SubscribedInRun(subscriptions')
    /\ UNCHANGED <<time, episodes, processed_episodes, store_errors,
                   result, calls, pipeline, telegram, pc, locals, invoked_at,
                   run_ticks, stalls, rerun, kill_budget, fault_budget, hist>>

NextRace ==
    \/ \E c \in Callers : SubscribeLooksUp(c)
    \/ \E c \in Callers : SubscribeCommits(c)
    \/ Unsubscribe

SpecRace == InitSubs /\ [][NextRace]_vars

SpecJobs == InitJobs /\ [][NextJobs]_vars

SpecPoll == InitJobs /\ [][NextPoll]_vars

\* ----------------------------------------------------------------- claims
\* the pairs of the digests built so far, and the episodes built for a user
DigestPairs ==
    UNION {{<<e, user_episodes[i][1]>> : e \in SeqRange(user_episodes[i][2])} :
           i \in 1..Len(user_episodes)}

EpisodesOf(groups, u) ==
    UNION {SeqRange(groups[i][2]) : i \in {j \in 1..Len(groups) : groups[j][1] = u}}

UnitPairs == SeqRange(units)

SentNow(p) == deliveries'[p] > deliveries[p]

C1_NotSelected ==
    pc \in {"daily_sub", "daily_send", "weekly_sub", "weekly_send"}
        => \A p \in DigestPairs : processed_episodes[p] = 0

C1_NotSent == \A p \in AllPairs : SentNow(p) => processed_episodes[p] = 0

C2_NoNullTranscript ==
    /\ \A p \in UnitPairs \cup DigestPairs : episodes[p[1]].transcript # NULL
    /\ \A i \in 1..Len(to_mark) : episodes[to_mark[i]].transcript # NULL
    /\ \A p \in AllPairs : deliveries[p] > 0 => episodes[p[1]].transcript # NULL

\* the query of a podcast ran while an episode of it, inside the window, had
\* no transcript
C2_Witness ==
    /\ pc \in {"imm_unit", "daily_send"}
    /\ \E e \in EpisodeIds, p \in UnitPairs \cup DigestPairs :
         /\ episodes[e].transcript = NULL
         /\ episodes[e].published >= since_date
         /\ episodes[p[1]].podcast_id = episodes[e].podcast_id

C3_RecordImpliesDelivery ==
    \A p \in AllPairs : processed_episodes[p] > 0 => deliveries[p] > 0

C3_FailedSendWritesNothing ==
    failed_pairs' # failed_pairs =>
        /\ processed_episodes' = processed_episodes
        /\ pc' \notin {"imm_mark", "daily_mark", "weekly_mark"}
        /\ \A p \in failed_pairs' \ failed_pairs : processed_episodes'[p] = 0

\* C3: a ProcessedEpisode record is written only after the delivery of its
\* pair returned success; a failed send writes no record for the episodes it
\* carried, which therefore stay eligible for the next run.
C3_MarkAfterDelivery ==
    [](C3_RecordImpliesDelivery) /\ [][C3_FailedSendWritesNothing]_vars

\* a pair whose send failed in one run was delivered, and only then recorded,
\* by a later run
C3_Witness ==
    \E p \in failed_pairs : deliveries[p] = 1 /\ processed_episodes[p] > 0

\* C4: with every delivery succeeding, an episode that a complete scheduled
\* run left eligible for a subscribed user is delivered before it leaves the
\* window of the user's cadence (after which no run can select it).
C4_EligibleEventuallyDelivered ==
    fault_budget = MaxFaults =>
        \A x \in owed :
            ( /\ Subscribed(x[2], episodes[x[1]].podcast_id, x[3])
              /\ episodes[x[1]].published < time - WindowOf(x[3]) )
                => deliveries[<<x[1], x[2]>>] > 0

C5_TwiceOnlyUnmarked ==
    \A p \in AllPairs : deliveries[p] >= 2 => p \in unmarked_at_kill

C5_NothingLeft ==
    /\ pc = "gate_hour" =>
         \A p \in AllPairs :
            Eligible(p[1], p[2], "immediate", time) => episodes[p[1]].transcript = EMPTY
    /\ (pc = "daily_send" /\ user_episodes = <<>>) =>
         \A p \in AllPairs : ~Eligible(p[1], p[2], "daily", since_date + 24)
    /\ (pc = "weekly_send" /\ user_episodes = <<>>) =>
         \A p \in AllPairs : ~Eligible(p[1], p[2], "weekly", since_date + 168)

\* the first clock value read by the current run
FirstNow == CHOOSE t \in nows : \A s \in nows : t <= s

C5_AttemptsOnlyEligible ==
    \A p \in AllPairs :
        SentNow(p) => /\ processed_episodes[p] = 0
                      /\ episodes[p[1]].transcript # NULL
                      /\ \E c \in Cadences :
                            /\ Subscribed(p[2], episodes[p[1]].podcast_id, c)
                            /\ episodes[p[1]].published >= FirstNow - WindowOf(c)

C6_Selects ==
    (pc = "daily_sub" /\ pc' \in {"daily_sub", "daily_send"} /\ queue' # queue) =>
        LET u == queue[1].username
        IN  EpisodesOf(user_episodes', u) =
               EpisodesOf(user_episodes, u) \cup
               {e \in EpisodeIds :
                    /\ episodes[e].podcast_id = queue[1].podcast_id
                    /\ time - 24 <= episodes[e].published
                    /\ episodes[e].published <= time
                    /\ episodes[e].transcript # NULL
                    /\ processed_episodes[<<e, u>>] = 0}

C6_AllMarked ==
    (pc = "daily_send" /\ user_episodes = <<>>) =>
        \A p \in AllPairs :
            ( /\ Subscribed(p[2], episodes[p[1]].podcast_id, "daily")
              /\ episodes[p[1]].transcript # NULL
              /\ since_date <= episodes[p[1]].published )
                => processed_episodes[p] > 0

C6_RerunSendsNothing ==
    (pc = "daily_send" /\ <<"daily", since_date + 24>> \in digest_done) =>
        \A i \in 1..Len(user_episodes) : user_episodes[i][2] = <<>>

C7_SingleNow == Cardinality(nows) <= 1

C8_Immediate ==
    (pc = "imm_podcast" /\ podcast_subscriptions' # podcast_subscriptions) =>
        \A e \in EpisodeIds :
            ( /\ episodes[e].podcast_id = podcast_subscriptions[1][1]
              /\ episodes[e].transcript # NULL
              /\ episodes[e].published = time - 48 )
                => \E k \in 1..Len(units') : units'[k][1] = e

C8_Digest(here, send_pc, window) ==
    (pc = here /\ pc' \in {here, send_pc} /\ queue' # queue) =>
        \A e \in EpisodeIds :
            ( /\ episodes[e].podcast_id = queue[1].podcast_id
              /\ episodes[e].transcript # NULL
              /\ episodes[e].published = time - window
              /\ processed_episodes[<<e, queue[1].username>>] = 0 )
                => e \in EpisodesOf(user_episodes', queue[1].username)

\* C8: an episode published exactly at now - window is inside the window, by
\* the same rule in the immediate (48 h), daily (24 h) and weekly (168 h)
\* paths: whenever a path queries a podcast, such an episode is selected.
C8_BoundaryInclusive ==
    [][ /\ C8_Immediate
        /\ C8_Digest("daily_sub", "daily_send", 24)
        /\ C8_Digest("weekly_sub", "weekly_send", 168) ]_vars

\* each of the three paths has selected an episode published exactly at the
\* start of its window
C8_Witness == boundary_seen = Cadences

C10_FailuresCounted == pc = "finish" => counters.errors = failed_units

\* C11: when the summary generation of an (episode, user) unit fails, the
\* unit is skipped: the step sends no notification for the pair and does not
\* go on to write its record.
C11_SummaryFailureSkips ==
    [][ \A p \in error_summaries' \ error_summaries :
            /\ ~SentNow(p)
            /\ pc' # "imm_mark" ]_vars

BodyEpisodes(body) == UNION {SeqRange(body[k][2]) : k \in 1..Len(body)}

C12_OneDigestPerUser ==
    \A i, j \in 1..Len(messages) :
        ( /\ i # j
          /\ messages[i].cadence \in {"daily", "weekly"}
          /\ messages[i].cadence = messages[j].cadence )
            => messages[i].to # messages[j].to

C12_GroupedByPodcast ==
    \A i \in 1..Len(messages) :
        LET b == messages[i].body
        IN  /\ \A k \in 1..Len(b) :
                 /\ b[k][2] # <<>>
                 /\ \A e \in SeqRange(b[k][2]) : episodes[e].podcast_id = b[k][1]
            /\ \A k, l \in 1..Len(b) : k # l => b[k][1] # b[l][1]

ImmediateMessages(p) ==
    {i \in 1..Len(messages) :
        /\ messages[i].cadence = "immediate"
        /\ messages[i].to = p[2]
        /\ p[1] \in BodyEpisodes(messages[i].body)}

C12_ImmediateOnePerPair ==
    /\ \A i \in 1..Len(messages) :
         messages[i].cadence = "immediate" =>
            Cardinality(BodyEpisodes(messages[i].body)) = 1
    /\ \A p \in AllPairs : Cardinality(ImmediateMessages(p)) <= 1
    /\ pc = "gate_hour" =>
         \A p \in AllPairs :
            ( /\ Subscribed(p[2], episodes[p[1]].podcast_id, "immediate")
              /\ episodes[p[1]].transcript \notin {NULL, EMPTY}
              /\ episodes[p[1]].published >= time - 48 )
                => \/ Cardinality(ImmediateMessages(p)) = 1
                   \/ deliveries[p] = 1

C12_DigestHoldsAll ==
    ( /\ Len(messages') = Len(messages) + 1
      /\ messages'[Len(messages')].cadence \in {"daily", "weekly"} ) =>
        LET m == messages'[Len(messages')]
        IN  /\ \A e \in EpisodeIds :
                 Eligible(e, m.to, m.cadence, time) => e \in BodyEpisodes(m.body)
            /\ \A e \in BodyEpisodes(m.body) :
                 /\ Subscribed(m.to, episodes[e].podcast_id, m.cadence)
                 /\ episodes[e].transcript # NULL
                 /\ processed_episodes[<<e, m.to>>] = 0

RowsOf(table, u, p) ==
    {i \in 1..Len(table) : table[i].username = u /\ table[i].podcast_id = p}

\* the step is a call of op that the store let through
CallStep(op) ==
    /\ calls' = calls + 1
    /\ result'.op = op
    /\ ~result'.store_raised

C13_AtMostOneRow ==
    \A u \in Users, p \in Podcasts : Cardinality(RowsOf(subscriptions, u, p)) <= 1

C13_RepeatedSubscribe ==
    (CallStep("subscribe")
        /\ RowsOf(subscriptions, result'.username, result'.podcast_id) # {})
    => LET i == FirstRow(subscriptions, result'.username, result'.podcast_id)
       IN  /\ Len(subscriptions') = Len(subscriptions)
           /\ IF subscriptions[i].is_active
              THEN result'.message = "You're already subscribed to this podcast!"
              ELSE result'.message = "Subscription reactivated!" /\ subscriptions'[i].is_active

\* C13: after any sequence of subscribe, unsubscribe and update calls the table
\* holds at most one row per (username, podcast); a subscribe for a pair that
\* has a row adds none: it reports "You're already subscribed to this podcast!" when the row is active
\* and reactivates the row when it is inactive.
C13_OneRowPerPair == [](C13_AtMostOneRow) /\ [][C13_RepeatedSubscribe]_vars

\* a pair was subscribed, unsubscribed and subscribed again, and other pairs have rows
C13_Witness ==
    /\ result.op = "subscribe"
    /\ result.message = "Subscription reactivated!"
    /\ Len(subscriptions) >= 2
    /\ calls = MaxCalls

\* ---------------------------------------------------------------- C14
\* the pair of the call made by the step, and its row before the call
CalledRow == FirstRow(subscriptions, result'.username, result'.podcast_id)

\* every row but row i is as it was
OthersKept(i) ==
    \A j \in 1..Len(subscriptions) :
        j # i => j <= Len(subscriptions') /\ subscriptions'[j] = subscriptions[j]

C14_Insert ==
    CalledRow = 0
    => /\ subscriptions' = Append(subscriptions,
                                  Row(result'.username, result'.podcast_id, TRUE,
                                      result'.preference))
       /\ result'.success

C14_Reactivate ==
    (CalledRow # 0 /\ ~subscriptions[CalledRow].is_active)
    => /\ Len(subscriptions') = Len(subscriptions)
       /\ subscriptions'[CalledRow] =
              Row(result'.username, result'.podcast_id, TRUE, result'.preference)
       /\ OthersKept(CalledRow)
       /\ result'.success

C14_AlreadySubscribed ==
    (CalledRow # 0 /\ subscriptions[CalledRow].is_active)
    => /\ subscriptions' = subscriptions
       /\ ~result'.success
       /\ result'.message = "You're already subscribed to this podcast!"

\* C14: a subscribe call that the store lets through has three outcomes: with
\* no row for the pair it appends an active row with the given cadence and
\* succeeds; with an inactive row it makes the row active with the given
\* cadence and succeeds; with an active row it fails with "already subscribed"
\* and the table, the row's cadence included, is as before.
C14_SubscribeOutcomes ==
    [][CallStep("subscribe")
        => C14_Insert /\ C14_Reactivate /\ C14_AlreadySubscribed]_vars

\* the third call, a subscribe, has just reactivated a row, which is active and
\* holds the weekly cadence given to the call
C14_Witness ==
    /\ result.op = "subscribe"
    /\ result.message = "Subscription reactivated!"
    /\ \E i \in 1..Len(subscriptions) :
          /\ subscriptions[i].username = result.username
          /\ subscriptions[i].podcast_id = result.podcast_id
          /\ subscriptions[i].notification_preferences = "weekly"
          /\ subscriptions[i].is_active
    /\ result.preference = "weekly"
    /\ calls = 3

\* ---------------------------------------------------------------- C15
C15_SoftDelete ==
    (CalledRow # 0 /\ subscriptions[CalledRow].is_active)
    => /\ Len(subscriptions') = Len(subscriptions)
       /\ subscriptions'[CalledRow] = [subscriptions[CalledRow] EXCEPT !.is_active = FALSE]
       /\ OthersKept(CalledRow)
       /\ result'.success

C15_NothingToUnsubscribe ==
    (CalledRow = 0 \/ (CalledRow # 0 /\ ~subscriptions[CalledRow].is_active))
    => /\ subscriptions' = subscriptions
       /\ ~result'.success

\* C15: an unsubscribe call that the store lets through, on an active row,
\* makes the row inactive and keeps it in the table; with no row or an
\* inactive row it fails and the table is as before.
C15_Unsubscribe ==
    [][CallStep("unsubscribe") => C15_SoftDelete /\ C15_NothingToUnsubscribe]_vars

\* an unsubscribe has just made a row inactive, and the row is still there
C15_Witness ==
    /\ result.op = "unsubscribe"
    /\ result.success
    /\ \E i \in 1..Len(subscriptions) :
          /\ subscriptions[i].username = result.username
          /\ subscriptions[i].podcast_id = result.podcast_id
          /\ ~subscriptions[i].is_active
    /\ Len(subscriptions) >= 2

\* ---------------------------------------------------------------- C16
C16_NotFound ==
    ~result'.success <=> CalledRow = 0

C16_NoRow ==
    CalledRow = 0 => subscriptions' = subscriptions

C16_RowUpdated ==
    CalledRow # 0
    => /\ Len(subscriptions') = Len(subscriptions)
       /\ subscriptions'[CalledRow] =
              [subscriptions[CalledRow] EXCEPT !.notification_preferences = result'.preference]
       /\ OthersKept(CalledRow)

\* C16: an update call that the store lets through fails exactly when the pair
\* has no row, and then the table is as before; with a row, active or not, it
\* sets the row's cadence and leaves everything else, the active flag included,
\* as it was.
C16_UpdatePreference ==
    [][CallStep("update") => C16_NotFound /\ C16_NoRow /\ C16_RowUpdated]_vars

\* an update has just changed the cadence of an inactive row
C16_Witness ==
    /\ result.op = "update"
    /\ result.success
    /\ \E i \in 1..Len(subscriptions) :
          /\ subscriptions[i].username = result.username
          /\ subscriptions[i].podcast_id = result.podcast_id
          /\ ~subscriptions[i].is_active
          /\ subscriptions[i].notification_preferences = result.preference
          /\ result.preference = "daily"

\* ---------------------------------------------------------------- C17
C17_Expected ==
    {"You're already subscribed to this podcast!",
     "You're not subscribed to this podcast.",
     "You're already unsubscribed from this podcast.",
     "Subscription not found."}

\* C17: every call of subscribe, unsubscribe and update returns a
\* (success, message) pair and none raises; the expected refusals and the
\* store's errors come back with success = FALSE and a message.
C17_NeverRaises ==
    result.op # "none"
    => /\ ~result.raised
       /\ result.success \in BOOLEAN
       /\ result.message # ""
       /\ result.store_raised => ~result.success
       /\ result.message \in C17_Expected => ~result.success

\* a call met a store error and returned it
C17_Witness ==
    /\ result.op = "update"
    /\ result.store_raised
    /\ result.message = "Error: store"
    /\ Len(subscriptions) >= 1

\* ---------------------------------------------------------------- C18
Completed(i) == jobs[i].status = "COMPLETED"

\* C18: in every reachable state an episode with a non-null transcript has a
\* TranscriptionJob in COMPLETED status for its audio URL; feed polling never
\* gives an episode a transcript.
C18_TranscriptOnlyFromJob ==
    \A e \in DOMAIN episodes :
        episodes[e].transcript # NULL
        => \E i \in 1..Len(jobs) : Completed(i) /\ jobs[i].audio_url = AudioUrl(e)

\* ---------------------------------------------------------------- C19
C19_StatusKept ==
    \A i \in 1..Len(jobs) :
        Completed(i) => i <= Len(jobs') /\ jobs'[i] = jobs[i]

C19_NotExamined ==
    \A i \in 1..Len(jobs) : Completed(i) => i \notin examined'

\* C19: a job that is COMPLETED stays COMPLETED in every later state, and no
\* later completion check has it among the jobs it examines.
C19_CompletedIsFinal == [][C19_StatusKept /\ C19_NotExamined]_vars

\* a completion check has just run on other jobs while a job completed by an
\* earlier check was in the table
C19_Witness ==
    /\ examined # {}
    /\ \E i \in 1..Len(jobs) : Completed(i) /\ i \notin examined

\* ---------------------------------------------------------------- C20
\* in the step, the transcript of job i was found and gave text, an episode
\* has the job's audio URL, and the commit went through
C20_Attachable(i) ==
    /\ get_object(jobs[i].transcript_uri) # "absent"
    /\ extract_transcript_text(get_object(jobs[i].transcript_uri)) # EMPTY
    /\ Matches(episodes, jobs[i].audio_url) # {}
    /\ i \notin rolled_back'

C20_FlipsIffAttached ==
    \A i \in 1..Len(jobs) :
        /\ (~Completed(i) /\ jobs'[i].status = "COMPLETED")
           => /\ i \in examined'
              /\ C20_Attachable(i)
              /\ \E e \in Matches(episodes, jobs[i].audio_url) :
                    episodes'[e].transcript = extract_transcript_text(get_object(jobs[i].transcript_uri))
        /\ (i \in examined' /\ C20_Attachable(i)) => jobs'[i].status = "COMPLETED"

C20_CompletedHasTranscript ==
    \A i \in 1..Len(jobs) :
        Completed(i)
        => \E e \in Matches(episodes, jobs[i].audio_url) :
              episodes[e].transcript \notin {NULL, EMPTY}

\* C20: a completion check makes a job COMPLETED exactly when, in that step,
\* the job's transcript object was found, gave non-empty text, and the text
\* was stored on an episode with the job's audio URL; hence a COMPLETED job
\* always has an episode with its audio URL whose transcript is not null.
C20_CompletionAttaches == [](C20_CompletedHasTranscript) /\ [][C20_FlipsIffAttached]_vars

\* one completion check has completed a job and left another job, whose
\* transcript object held no text, as it was
C20_Witness ==
    /\ \E i \in examined : Completed(i)
    /\ \E j \in examined :
          /\ ~Completed(j)
          /\ get_object(jobs[j].transcript_uri) = "no_transcripts"

\* ---------------------------------------------------------------- C21
\* the check of job i fails in the step: no transcript object, no text in
\* it, no episode for the audio URL, or an exception
C21_Fails(i) == i \in examined' /\ ~C20_Attachable(i)

C21_FailedJobUntouched ==
    \A i \in 1..Len(jobs) : C21_Fails(i) => jobs'[i] = jobs[i]

C21_EpisodesOnlyByGoodJobs ==
    \A e \in DOMAIN episodes :
        episodes'[e] # episodes[e]
        => \E i \in examined' :
              C20_Attachable(i) /\ e \in Matches(episodes, jobs[i].audio_url)

C21_RestProcessed ==
    \A i, j \in examined' :
        (i < j /\ C21_Fails(i) /\ C20_Attachable(j)) => jobs'[j].status = "COMPLETED"

C22_Waiting(i) ==
    jobs[i].status = "STARTED" /\ get_object(jobs[i].transcript_uri) = "absent"

C22_StaysStarted ==
    \A i \in 1..Len(jobs) :
        C22_Waiting(i)
        => /\ i <= Len(jobs')
           /\ jobs'[i] = jobs[i]
           /\ (ran' = "process_completed_transcripts" /\ bucket # NULL) => i \in examined'

C22_TwoStatuses ==
    \A i \in 1..Len(jobs) : jobs[i].status \in {"STARTED", "COMPLETED"}

\* C22: while the transcript of a job is not available on the remote side the
\* job stays STARTED, whatever step is taken, and every completion check
\* that gets to its selection (the bucket is configured) selects it; no step
\* gives a job any status but STARTED and COMPLETED.
C22_WaitsForever == [](C22_TwoStatuses) /\ [][C22_StaysStarted]_vars

\* a completion check has just examined a job whose transcript is not there,
\* next to a job that an earlier check completed
C22_Witness ==
    /\ \E i \in examined : C22_Waiting(i)
    /\ \E j \in 1..Len(jobs) : Completed(j) /\ j \notin examined

\* ---------------------------------------------------------------- C23
\* the step is an iteration of the submission loop
C23_Iteration == submission.running /\ submission' # submission

\* the iteration took its episode through the download
C23_Picked == C23_Iteration /\ submission'.outcome # "no_audio"

\* the iteration uploaded the audio of its episode and went on to the job
C23_Submitted ==
    C23_Iteration
    /\ submission'.outcome \in {"not_started", "start_failed", "job_started", "commit_failed"}

\* episode e has a job that was started and is not completed
C23_JobStarted(e) ==
    \E i \in 1..Len(jobs) :
        jobs[i].transcript_uri = e /\ jobs[i].status = "STARTED"

C23_PicksNeedy ==
    C23_Picked
    => /\ episodes[submission'.episode].transcript = NULL
       /\ AudioUrl(submission'.episode) # NULL

C23_NoResubmission ==
    C23_Submitted => ~C23_JobStarted(submission'.episode)

C23_KeepsTranscript ==
    \A e \in DOMAIN episodes :
        episodes[e].transcript # NULL => episodes'[e].transcript # NULL

\* C23: the transcription state of an episode only advances: the submission
\* takes only episodes with null transcript and an audio URL through the
\* download, an episode that has a started job is not uploaded and submitted
\* again by a later run, and an episode with a transcript keeps one.
C23_StateOnlyAdvances ==
    [][C23_PicksNeedy /\ C23_NoResubmission /\ C23_KeepsTranscript]_vars

\* ---------------------------------------------------------------- C24
\* the audio of episode e has a format the transcription does not take
C24_Unsupported(e) ==
    AudioUrl(e) # NULL /\ Lower(file_ext(AudioUrl(e))) \notin AllowedFormats

\* C24: an iteration of the submission loop on an episode whose audio has an
\* extension outside the allow-list creates no TranscriptionJob row and ends
\* normally: the loop goes on with the remaining episodes.
C24_UnsupportedFormatSkipped ==
    [][(C23_Iteration /\ C24_Unsupported(Head(submission.todo)))
        => /\ jobs' = jobs
           /\ submission'.episode = Head(submission.todo)
           /\ submission'.todo = Tail(submission.todo)
           /\ submission'.running = (Tail(submission.todo) # <<>>)]_vars

\* the audio of t4 (.m4a) was downloaded and uploaded, no job was started for
\* it, and the run goes on with the next episode
C24_Witness ==
    /\ submission.outcome = "not_started"
    /\ submission.episode[1] = "t4"
    /\ submission.running
    /\ submission.todo # <<>>
    /\ Len(jobs) >= 1

\* ---------------------------------------------------------------- C25
\* C25: when an iteration of the submission loop has ended, by whatever path,
\* no temporary file created for its episode remains.
C25_NoTempFileLeft ==
    submission.outcome \notin {"none", "selected", "no_bucket", "no_episodes"}
    => submission.temp_file # "left"

\* ---------------------------------------------------------------- C26
\* the step is a poll in which every feed was read and stored, and so was the
\* poll before it
C26_SecondPoll ==
    /\ time' = time
    /\ polled.done
    /\ polled.failed = {}
    /\ polled'.done
    /\ polled'.failed = {}

\* C26: a second poll of the unchanged feeds gives every entry the identity
\* the first poll gave it, and stores no further episode.
C26_PollIdempotent ==
    [][C26_SecondPoll
       => /\ polled'.ids = polled.ids
          /\ DOMAIN episodes' = DOMAIN episodes]_vars

\* ---------------------------------------------------------------- C27
\* the step is a run of fetch_podcast_episodes
C27_Poll == polled'.done /\ time' = time

C27_StoredUntouched ==
    \A e \in DOMAIN episodes :
        e \in DOMAIN episodes' /\ episodes'[e] = episodes[e]

C27_OnlyNewInserted ==
    \A e \in DOMAIN episodes' \ DOMAIN episodes :
        \E x \in polled'.ids : x[2] = e

\* C27: a poll leaves every stored episode as it was, an attached transcript
\* included, and inserts only the entries whose identity is not stored.
C27_PollInsertsOnly == [][C27_Poll => C27_StoredUntouched /\ C27_OnlyNewInserted]_vars

\* a poll has listed t2, which is stored with the transcript a completed job
\* attached, while the feed gives no transcript for it
C27_Witness ==
    /\ polled.done
    /\ <<"t2", <<"t2", 0>>>> \in polled.ids
    /\ episodes[<<"t2", 0>>].transcript = TEXT
    /\ \E i \in 1..Len(jobs) : Completed(i)

\* ---------------------------------------------------------------- C28
\* the identities the feed of podcast p gives at the time of the poll
C28_Listed(p) ==
    {d.id : d \in get_episodes_since(p, time - LookbackHours, time,
                                     [t \in LinkedTitles |-> NULL])}

C28_OthersStored ==
    \A p \in Podcasts \ polled'.failed :
        \A id \in C28_Listed(p) : id \in DOMAIN episodes'

C28_CommittedKept ==
    \A e \in DOMAIN episodes :
        e \in DOMAIN episodes' /\ episodes'[e] = episodes[e]

C28_FailedAborted ==
    \A e \in DOMAIN episodes' \ DOMAIN episodes :
        episodes'[e].podcast_id \notin polled'.failed

C29_SubmissionStep ==
    /\ ~submission.running
    /\ submission' # submission
    /\ submission'.outcome \in {"no_bucket", "no_episodes", "selected"}

\* process_completed_transcripts is called
C29_CompletionStep == ran' = "process_completed_transcripts"

C29_NothingTouched ==
    /\ jobs' = jobs
    /\ episodes' = episodes
    /\ ~submission'.running

\* C29: without a bucket name, a call of fetch_transcripts starts no loop over
\* the episodes and a call of process_completed_transcripts examines no job:
\* the jobs and the episodes are as before.
C29_NoBucketShortCircuits ==
    [][(bucket = NULL /\ (C29_SubmissionStep \/ C29_CompletionStep))
       => C29_NothingTouched /\ (C29_CompletionStep => examined' = {})]_vars

\* process_completed_transcripts ran without a bucket name although a started
\* job has its transcript in the bucket and an episode still needs a transcript
C29_Witness ==
    /\ bucket = NULL
    /\ ran = "process_completed_transcripts"
    /\ get_episodes_needing_transcripts # {}
    /\ \E i \in 1..Len(jobs) :
          /\ jobs[i].status = "STARTED"
          /\ get_object(jobs[i].transcript_uri) = "transcripts"
          /\ Matches(episodes, jobs[i].audio_url) # {}

\* ---------------------------------------------------------------- C30
\* the paragraphs of a text that are not blank, stripped, in their order
C30_Paragraphs(s) ==
    LET NotBlank(paragraph) == strip(paragraph) # <<>>
        kept == SelectSeq(split(s), NotBlank)
    IN  [i \in 1..Len(kept) |-> strip(kept[i])]

RECURSIVE C30_Carried(_, _)
C30_Carried(chunks, i) ==
    IF i > Len(chunks) THEN <<>>
    ELSE C30_Paragraphs(chunks[i]) \o C30_Carried(chunks, i + 1)

C30_WithinBound ==
    \A i \in 1..Len(telegram.sent) : Len(telegram.sent[i]) <= telegram.max_length

C30_ParagraphsCarried ==
    C30_Carried(telegram.sent, 1) = C30_Paragraphs(telegram.message)

\* C30: the chunks split_message returns for a message, which are sent one
\* after the other, have at most max_length characters each and carry the
\* paragraphs of the message in their order, none lost.
C30_ChunksBoundedAndComplete ==
    telegram.via = "send_telegram_message"
    => C30_WithinBound /\ C30_ParagraphsCarried

\* what holds of split_message: no paragraph is lost or moved
C30_ParagraphsKept ==
    telegram.via = "send_telegram_message" => C30_ParagraphsCarried

\* the notification path: what is sent is within the bound
C30_NotificationWithinBound ==
    telegram.via = "send_telegram_notification_sync" => C30_WithinBound

\* ---------------------------------------------------------------- C31
C31_Returned == \A c \in Callers : sessions[c].pc = "idle"

\* C31: when the subscribe calls that ran side by side have returned, the
\* table has at most one row for each (username, podcast) pair.
C31_ParallelSubscribeOneRow ==
    C31_Returned
    => \A u \in Users, p \in Podcasts :
          Cardinality({i \in 1..Len(subscriptions) :
                          /\ subscriptions[i].username = u
                          /\ subscriptions[i].podcast_id = p}) <= 1

C33_Submits(e) ==
    /\ submission.running
    /\ submission' # submission
    /\ submission'.episode = e
    /\ submission'.outcome = "job_started"

\* C33: no job is started for an episode that has a transcript, also when a
\* run of process_completed_transcripts attaches it after the run of
\* fetch_transcripts has read its list of episodes.
C33_NoJobForTranscribed ==
    [][\A e \in DOMAIN episodes :
          C33_Submits(e) => episodes[e].transcript = NULL]_vars

\* ---------------------------------------------------------------- C34
\* job i is marked COMPLETED by the step
C34_Completes(i) == ~Completed(i) /\ jobs'[i].status = "COMPLETED"

\* the episode job i was submitted for: fetch_transcripts puts its id in the
\* output key of the job
C34_EpisodeOf(i) == jobs[i].transcript_uri

\* C34: when a job is marked COMPLETED, the episode it was submitted for has
\* the text of the job's transcript object, also when another stored episode
\* has the same audio URL.
C34_AttachedToOwnEpisode ==
    [][\A i \in 1..Len(jobs) :
          C34_Completes(i)
          => episodes'[C34_EpisodeOf(i)].transcript =
                extract_transcript_text(get_object(jobs[i].transcript_uri))]_vars

\* ---------------------------------------------------------------- C35
\* the step sends episode e to user u
C35_Sends(e, u) == deliveries'[<<e, u>>] > deliveries[<<e, u>>]

\* C35: a run sends a user an episode of a podcast only if the user's
\* subscription to it was active when the run started or at some time since;
\* after a successful unsubscribe and until the next subscribe, no run that
\* starts later sends the user an episode of the podcast.
C35_NothingAfterUnsubscribe ==
    [][\A e \in EpisodeIds, u \in Users :
          C35_Sends(e, u) => <<u, episodes[e].podcast_id>> \in subscribed_in_run]_vars

\* u1 unsubscribed from podcast 1 before the run started; the run has gone
\* through its paths and has not sent e1, which has a transcript, lies in the
\* window and has no record for u1
C35_Witness ==
    /\ pc = "finish"
    /\ result.op = "unsubscribe"
    /\ result.username = "u1"
    /\ result.podcast_id = 1
    /\ result.success
    /\ <<"u1", 1>> \notin subscribed_in_run
    /\ deliveries[<<"e1", "u1">>] = 0
    /\ ~HasRecord("e1", "u1")
    /\ HasTranscript("e1")
    /\ InWindow(episodes["e1"].published, time - ImmediateWindowHours)

\* ---------------------------------------------------------------- C36
\* a completed job has attached a transcript to episode e
C36_Attached(e) ==
    /\ episodes[e].transcript \notin {NULL, EMPTY}
    /\ \E i \in 1..Len(jobs) : Completed(i) /\ jobs[i].transcript_uri = e

\* the immediate path can still select e: Episode.published >= now - 2 days
\* holds now, and holds later only if it holds now
C36_Selectable(e) == InWindow(episodes[e].published, time - ImmediateWindowHours)

\* C36: an episode the poll stored, whose transcript a completed job has
\* attached and which has not been sent to an active immediate subscriber of
\* its podcast, can still be selected by the immediate path, so that a later
\* run sends it.
C36_AttachedGetsDelivered ==
    \A e \in EpisodeIds, u \in Users :
        ( /\ C36_Attached(e)
          /\ Subscribed(u, episodes[e].podcast_id, "immediate")
          /\ deliveries[<<e, u>>] = 0 )
        => C36_Selectable(e)

\* ---------------------------------------------------------------- C37
\* a call for pair p that commits leaves one row for p, a second call leaves
\* the table as the first left it, and the rows of the other pairs stay
C37_OneRowAfterMark ==
    \A p \in AllPairs :
        LET once == mark_episode_processed(processed_episodes, p[1], p[2])
        IN  /\ once[p] = 1
            /\ mark_episode_processed(once, p[1], p[2]) = once
            /\ \A q \in AllPairs \ {p} : once[q] = processed_episodes[q]

C37_NoRowDeleted ==
    \A p \in AllPairs : processed_episodes'[p] >= processed_episodes[p]

\* C37: after any number of calls of mark_episode_processed for a pair, made
\* one after another, the pair has exactly one ProcessedEpisode row, and no
\* step of the program removes a ProcessedEpisode row.
C37_MarkIdempotent == [](C37_OneRowAfterMark) /\ [][C37_NoRowDeleted]_vars

\* a lookup that raised made a later run send a recorded pair again, and
\* mark_episode_processed is called for the pair, which has its row
C37_Witness ==
    /\ pc = "imm_mark"
    /\ processed_episodes[<<to_mark[1], units[1][2]>>] = 1
    /\ deliveries[<<to_mark[1], units[1][2]>>] = 2

\* ---------------------------------------------------------------- C38
\* the step sends episode e to user u
C38_Sends(e, u) == deliveries'[<<e, u>>] > deliveries[<<e, u>>]

\* C38: also when the store raises in is_episode_processed_for_user, a run
\* sends a user no episode for which the user has a ProcessedEpisode row.
C38_LookupErrorNoRedelivery ==
    [][\A e \in EpisodeIds, u \in Users : C38_Sends(e, u) => ~HasRecord(e, u)]_vars

====
